---- MODULE Spec2Model ----
(***************************************************************************)
(* Dataset construction and held-out evaluation of Sift:                   *)
(*   - split_held_out and _normalize_text   (src/src/model_trainer.py)     *)
(*   - HackerNewsFineTuner session methods  (src/src/session_manager.py)   *)
(*   - TasteTracker lifecycle callbacks     (src/src/model_trainer.py)     *)
(*   - format_taste_table / _final          (src/src/model_trainer.py)     *)
(*   - import_additional_dataset            (src/src/session_manager.py)   *)
(*   - load_csv and main                    (src/train.py)                 *)
(*   - score_held_out_items and its calls   (src/src/model_trainer.py)     *)
(*   - training_wrapper and the label state (src/src/ui.py)                *)
(*                                                                         *)
(* A text is a sequence of one-character strings, so that lowercasing and  *)
(* whitespace collapsing are computed and not assumed.  A triplet row is   *)
(* <<anchor, positive, negative>>.                                         *)
(***************************************************************************)
EXTENDS Integers, Sequences, FiniteSets, TLC

VARIABLES
    triplets,             \* split_held_out argument: list of rows
    fraction,             \* split_held_out argument: [num, den] rational
    min_anchor_triplets,  \* split_held_out argument
    seed,                 \* split_held_out argument
    global_rng,           \* state of the module-level generator of `random`
    global_draws,         \* number of draws other code made from it
    results,              \* per invocation: what split_held_out returned
    frames,               \* per invocation run step by step: its locals
    model,                \* HackerNewsFineTuner.model
    vibe_checker,         \* HackerNewsFineTuner.vibe_checker
    titles,               \* HackerNewsFineTuner.titles
    last_hn_dataset,      \* HackerNewsFineTuner.last_hn_dataset
    imported_dataset,     \* HackerNewsFineTuner.imported_dataset
    feed,                 \* titles the news feed currently serves
    pos_ids,              \* the positive index list of the requests
    neg_ids,              \* the negative index list of the requests
    built,                \* the last _create_hn_dataset call and its result
    outcome,              \* the last training call and how it ended
    tt_groups,            \* TasteTracker.groups (items carry baseline_score)
    final_scores,         \* TasteTracker.final_scores
    sim,                  \* similarity the model's current weights give
    n_begin,              \* on_train_begin calls the tracker completed
    n_epoch,              \* on_epoch_end calls the tracker completed
    summary,              \* what the last get_final_summary() returned
    tt_call,              \* the last call on the tracker and how it ended
    rp_groups,            \* format_taste_table / format_taste_final argument
    rp_scores,            \* format_taste_table / format_taste_final argument
    printed,              \* what format_taste_table returned
    final_report,         \* what format_taste_final returned
    process,              \* which program runs: the app or train.py
    csv_file,             \* the CSV file at hand
    n_imports,            \* import_additional_dataset calls so far
    import_call,          \* the last import_additional_dataset call
    cli_args,             \* the parsed arguments of train.py
    cli_result,           \* how main() of train.py ended
    stories,              \* stories_state of the interface
    labels,               \* labels_state of the interface: index -> label
    sc_groups,            \* score_held_out_items argument
    sc_sim,               \* similarity the scored model gives
    encode_log,           \* model.encode calls of the scoring pass, in order
    scored                \* how the scoring pass ended and what it returned

splitVars == <<triplets, fraction, min_anchor_triplets, seed,
               global_rng, global_draws, results, frames>>

sessionVars == <<model, vibe_checker, titles, last_hn_dataset, imported_dataset,
                 feed, pos_ids, neg_ids, built, outcome>>

trackerVars == <<tt_groups, final_scores, sim, n_begin, n_epoch, summary,
                 tt_call>>

reportVars == <<rp_groups, rp_scores, printed, final_report>>

importVars == <<process, csv_file, n_imports, import_call, cli_args, cli_result>>

uiVars == <<stories, labels>>

scoreVars == <<sc_groups, sc_sim, encode_log, scored>>

vars == <<splitVars, sessionVars, trackerVars, reportVars, importVars, uiVars,
          scoreVars>>

----------------------------------------------------------------------------
(* Bounds of the model *)

MaxRows == 3
MaxDraws == 1
MaxIds == 3
MaxBegins == 2
MaxEpochs == 2
MaxItems == 4
MaxFileRows == 2
MaxImports == 2

----------------------------------------------------------------------------
(* Generic helpers on sequences *)

Max(a, b) == IF a >= b THEN a ELSE b

Range(s) == {s[i] : i \in 1..Len(s)}

SeqsUpTo(S, n) == UNION {[1..k -> S] : k \in 0..n}

\* the sequences of SeqsUpTo(S, n) without a repeated element
InjSeqsUpTo(S, n) ==
    {s \in SeqsUpTo(S, n) : \A i, j \in 1..Len(s) : i # j => s[i] # s[j]}

\* s[:n] and s[n:] of Python, for n >= 0
Take(s, n) == SubSeq(s, 1, IF n < Len(s) THEN n ELSE Len(s))
\* A slice that keeps the whole list.
DropNothing(s, n) == s
Drop(s, n) == SubSeq(s, (IF n < Len(s) THEN n ELSE Len(s)) + 1, Len(s))

----------------------------------------------------------------------------
(* _normalize_text: " ".join(text.lower().split()) *)

Lower(c) ==
    CASE c = "A" -> "a"
      [] c = "B" -> "b"
      [] c = "C" -> "c"
      [] c = "N" -> "n"
      [] c = "P" -> "p"
      [] OTHER -> c

IsSpace(c) == c \in {" ", "\t"}

\* str.split() without argument: maximal runs of non-whitespace characters
RECURSIVE SplitWords(_, _, _)
SplitWords(s, cur, acc) ==
    IF s = <<>>
    THEN IF cur = <<>> THEN acc ELSE Append(acc, cur)
    ELSE IF IsSpace(Head(s))
         THEN SplitWords(Tail(s), <<>>,
                         IF cur = <<>> THEN acc ELSE Append(acc, cur))
         ELSE SplitWords(Tail(s), Append(cur, Head(s)), acc)

\* " ".join(words)
RECURSIVE JoinWords(_)
JoinWords(words) ==
    IF words = <<>> THEN <<>>
    ELSE IF Len(words) = 1 THEN Head(words)
    ELSE Head(words) \o <<" ">> \o JoinWords(Tail(words))


_normalize_text(text) ==
    JoinWords(SplitWords([i \in 1..Len(text) |-> Lower(text[i])], <<>>, <<>>))

----------------------------------------------------------------------------
(* random.Random(seed) and rng.shuffle.  The generator of the standard     *)
(* library is abstracted to a small multiplicative congruential generator: *)
(* what the code relies on is that the stream is a function of the seed    *)
(* and that every draw advances the state of the generator it is drawn     *)
(* from.                                                                   *)

RngNext(s) == (7 * s) % 61

\* A split that draws from the module-level generator instead of a private
\* one seeded for the call.
NewRandomShared(sd) == global_rng

\* random.Random(seed): a fresh generator whose state depends on seed only
NewRandom(sd) == (sd % 60) + 1

\* rng._randbelow(n): [value in 0..n-1, next state]
RandBelow(s, n) == [value |-> RngNext(s) % n, rng |-> RngNext(s)]

Swap(x, i, j) == [x EXCEPT ![i] = x[j], ![j] = x[i]]

\* random.shuffle: for i in reversed(range(1, len(x))): j = randbelow(i + 1);
\* x[i], x[j] = x[j], x[i].  Positions are 1-based here: i runs from Len(x)
\* down to 2 and j is drawn from 1..i.
RECURSIVE ShuffleFrom(_, _, _)
ShuffleFrom(x, i, s) ==
    IF i < 2 THEN [list |-> x, rng |-> s]
    ELSE LET d == RandBelow(s, i)
         IN  ShuffleFrom(Swap(x, i, d.value + 1), i - 1, d.rng)

Shuffle(x, s) == ShuffleFrom(x, Len(x), s)

----------------------------------------------------------------------------
(* split_held_out *)

\* round(n * fraction) as Python rounds: to nearest, ties to even
RoundHalfEven(num, den) ==
    LET q == num \div den
        r == num % den
    IN  IF 2 * r < den THEN q
        ELSE IF 2 * r > den THEN q + 1
        ELSE IF q % 2 = 0 THEN q ELSE q + 1

\* A count that truncates instead of rounding.
NHeldTruncated(nrows, f) == Max(1, (nrows * f.num) \div f.den)

\* n_held = max(1, round(len(rows) * fraction))
NHeld(nrows, f) == Max(1, RoundHalfEven(nrows * f.num, f.den))

\* A grouping that visits the anchor seen last first.
RECURSIVE AnchorOrderNewestFirst(_, _)
AnchorOrderNewestFirst(rows, acc) ==
    IF rows = <<>> THEN acc
    ELSE AnchorOrderNewestFirst(Tail(rows),
                                IF Head(rows)[1] \in Range(acc) THEN acc
                                ELSE <<Head(rows)[1]>> \o acc)

\* keys of by_anchor in insertion order: anchors in first-seen order
RECURSIVE AnchorOrder(_, _)
AnchorOrder(rows, acc) ==
    IF rows = <<>> THEN acc
    ELSE AnchorOrder(Tail(rows),
                     IF Head(rows)[1] \in Range(acc) THEN acc
                     ELSE Append(acc, Head(rows)[1]))

\* by_anchor[anchor]: the anchor's rows in input order
RowsOf(rows, anchor) ==
    LET IsOf(t) == t[1] = anchor IN SelectSeq(rows, IsOf)

\* train_norms of one anchor
TrainNorms(train_part) ==
    UNION {{_normalize_text(train_part[i][2]), _normalize_text(train_part[i][3])} :
              i \in 1..Len(train_part)}

\* An item that stores the normalized text.
HeldOutItemNormalized(text, is_pos) ==
    [text |-> _normalize_text(text), is_positive |-> is_pos, baseline_score |-> 0]

\* HeldOutItem(text=text, is_positive=is_pos); baseline_score defaults to 0.0
HeldOutItem(text, is_pos) ==
    [text |-> text, is_positive |-> is_pos, baseline_score |-> 0]

\* the (text, is_pos) candidates of the held rows, positive before negative
RECURSIVE Candidates(_)
Candidates(held_rows) ==
    IF held_rows = <<>> THEN <<>>
    ELSE <<HeldOutItem(Head(held_rows)[2], TRUE),
           HeldOutItem(Head(held_rows)[3], FALSE)>> \o Candidates(Tail(held_rows))

\* A filter that only removes duplicates among the held-out texts and skips
\* the check against the training texts.
RECURSIVE CollectItemsNoLeakGuard(_, _, _, _)
CollectItemsNoLeakGuard(cands, train_norms, seen_norm, items) ==
    IF cands = <<>> THEN items
    ELSE LET c == Head(cands)
             norm == _normalize_text(c.text)
         IN  IF norm \notin seen_norm
             THEN CollectItemsNoLeakGuard(Tail(cands), train_norms,
                                          seen_norm \cup {norm}, Append(items, c))
             ELSE CollectItemsNoLeakGuard(Tail(cands), train_norms, seen_norm, items)

\* A filter that only checks against the training texts and keeps texts
\* already accepted for the group.
RECURSIVE CollectItemsNoDedupe(_, _, _, _)
CollectItemsNoDedupe(cands, train_norms, seen_norm, items) ==
    IF cands = <<>> THEN items
    ELSE LET c == Head(cands)
             norm == _normalize_text(c.text)
         IN  IF norm \notin train_norms
             THEN CollectItemsNoDedupe(Tail(cands), train_norms,
                                       seen_norm \cup {norm}, Append(items, c))
             ELSE CollectItemsNoDedupe(Tail(cands), train_norms, seen_norm, items)

\* the loop over held_rows: keep a text unless its normal form was already
\* accepted for this anchor or occurs in the anchor's training rows
RECURSIVE CollectItems(_, _, _, _)
CollectItems(cands, train_norms, seen_norm, items) ==
    IF cands = <<>> THEN items
    ELSE LET c == Head(cands)
             norm == _normalize_text(c.text)
         IN  IF norm \notin seen_norm /\ norm \notin train_norms
             THEN CollectItems(Tail(cands), train_norms,
                               seen_norm \cup {norm}, Append(items, c))
             ELSE CollectItems(Tail(cands), train_norms, seen_norm, items)

\* A loop that emits the group also when no item survived the filters.
AppendGroupAlways(groups, anchor, items) ==
    Append(groups, [anchor |-> anchor, items |-> items])

\* if items: held_out_groups.append(AnchorHeldOutGroup(anchor, items))
AppendGroup(groups, anchor, items) ==
    IF items # <<>> THEN Append(groups, [anchor |-> anchor, items |-> items])
    ELSE groups

\* A size test that is off by one: an anchor with m - 1 rows is split too.
GoesAllToTrainOffByOne(nrows, m) == nrows < m - 1

\* if len(rows) < min_anchor_triplets: all rows go to training
GoesAllToTrain(nrows, m) == nrows < m

\* The loop over by_anchor.items(), threading the generator of the call.
\* acc.train and acc.held are train_triplets and held_out_groups; acc.log
\* records, for every anchor that was split, the locals held_rows and
\* train_part of its iteration (they are not returned by the code).
RECURSIVE SplitLoop(_, _, _, _, _, _)
SplitLoop(anchors, rows, f, m, s, acc) ==
    IF anchors = <<>> THEN acc
    ELSE LET anchor == Head(anchors)
             mine == RowsOf(rows, anchor)
         IN  IF GoesAllToTrain(Len(mine), m)
             THEN SplitLoop(Tail(anchors), rows, f, m, s,
                            [acc EXCEPT !.train = @ \o mine])
             ELSE LET sh == Shuffle(mine, s)
                      n_held == NHeld(Len(mine), f)
                      held_rows == Take(sh.list, n_held)
                      train_part == Drop(sh.list, n_held)
                      items == CollectItems(Candidates(held_rows),
                                            TrainNorms(train_part), {}, <<>>)
                  IN  SplitLoop(Tail(anchors), rows, f, m, sh.rng,
                                [train |-> acc.train \o train_part,
                                 held |-> AppendGroup(acc.held, anchor, items),
                                 log |-> Append(acc.log,
                                                [anchor |-> anchor,
                                                 held_rows |-> held_rows,
                                                 train_part |-> train_part])])

EmptySplit == [train |-> <<>>, held |-> <<>>, log |-> <<>>]

\* A split without the fraction == 0 short cut.
SplitHeldOutNoShortCut(rows, f, m, sd) ==
    SplitLoop(AnchorOrder(rows, <<>>), rows, f, m, NewRandom(sd), EmptySplit)

split_held_out(rows, f, m, sd) ==
    IF f.num = 0 THEN [train |-> rows, held |-> <<>>, log |-> <<>>]
    ELSE SplitLoop(AnchorOrder(rows, <<>>), rows, f, m, NewRandom(sd), EmptySplit)

----------------------------------------------------------------------------
(* HackerNewsFineTuner: session state, _create_hn_dataset and training *)

None == "None"

QUERY_ANCHOR == "MY_FAVORITE_NEWS"

ErrModelNotLoaded == "Model not loaded."
ErrNoFavorite == "Please select at least one 'Favorite' story."
ErrNoDislike == "Please select at least one 'Dislike' story."
ErrEmptyDataset == "Dataset generation failed (Empty dataset)."
IndexError == "IndexError"
TrainError == "training step raised"
NoError == "none"

\* [self.titles[i] for i in ids]; ids are 0-based, an id outside the title
\* list raises IndexError
ValidIds(T, ids) == \A k \in 1..Len(ids) : ids[k] \in 0..(Len(T) - 1)
TitlesAt(T, ids) == [k \in 1..Len(ids) |-> T[ids[k] + 1]]

\* An iterator that repeats its last element once the list is exhausted.
CycleAtRepeatLast(xs, k) == xs[IF k <= Len(xs) THEN k ELSE Len(xs)]

\* the k-th value of itertools.cycle(xs), k counted from 1
CycleAt(xs, k) == xs[((k - 1) % Len(xs)) + 1]

\* A builder that pairs like zip() and stops at the shorter list.
CreateHnDatasetZip(T, P, N) ==
    IF P = <<>> \/ N = <<>> THEN <<>>
    ELSE LET pos_titles == TitlesAt(T, P)
             neg_titles == TitlesAt(T, N)
             n == IF Len(P) <= Len(N) THEN Len(P) ELSE Len(N)
         IN  [k \in 1..n |-> <<QUERY_ANCHOR, pos_titles[k], neg_titles[k]>>]

\* A builder that reuses only the first element of the shorter list.
CreateHnDatasetFirstOnly(T, P, N) ==
    IF P = <<>> \/ N = <<>> THEN <<>>
    ELSE LET pos_titles == TitlesAt(T, P)
             neg_titles == TitlesAt(T, N)
         IN  IF Len(pos_titles) >= Len(neg_titles)
             THEN [k \in 1..Len(pos_titles) |->
                      <<QUERY_ANCHOR, pos_titles[k], neg_titles[1]>>]
             ELSE [k \in 1..Len(neg_titles) |->
                      <<QUERY_ANCHOR, pos_titles[1], neg_titles[k]>>]

\* _create_hn_dataset for ids inside the title list
_create_hn_dataset(T, P, N) ==
    IF P = <<>> \/ N = <<>> THEN <<>>
    ELSE LET pos_titles == TitlesAt(T, P)
             neg_titles == TitlesAt(T, N)
         IN  IF Len(pos_titles) >= Len(neg_titles)
             THEN [k \in 1..Len(pos_titles) |->
                      <<QUERY_ANCHOR, pos_titles[k], CycleAt(neg_titles, k)>>]
             ELSE [k \in 1..Len(neg_titles) |->
                      <<QUERY_ANCHOR, CycleAt(pos_titles, k), neg_titles[k]>>]

\* does _create_hn_dataset raise IndexError: the title lookups come after
\* the emptiness test
CreateRaises(T, P, N) ==
    /\ P # <<>> /\ N # <<>>
    /\ ~(ValidIds(T, P) /\ ValidIds(T, N))

\* A validation that forgets the test of the Dislike pool.
TrainingValidationNoDislike(mdl, P, N) ==
    IF mdl = None THEN ErrModelNotLoaded
    ELSE IF P = <<>> THEN ErrNoFavorite
    ELSE NoError

\* the checks at the head of training(): the first failing one raises
TrainingValidation(mdl, P, N) ==
    IF mdl = None THEN ErrModelNotLoaded
    ELSE IF P = <<>> THEN ErrNoFavorite
    ELSE IF N = <<>> THEN ErrNoDislike
    ELSE NoError

\* what the call train_with_dataset(...) inside training() can do: return,
\* or raise (an embedding or trainer failure, or the rejection of the
\* keyword arguments dataset= and search_fn= by the trainer of this package)
TrainStepOutcomes == {"ok", "raise"}

TitleFeeds ==
    { <<"A", "B", "C", "D", "E">>, <<"A", "A", "B", "C", "C">>,
      <<"A", "B", "C", "D">> }
FeedErrorTitles == <<"Error fetching news.">>

IdIndices == 0..4

NotBuilt == [called |-> FALSE, titles |-> <<>>, pos_ids |-> <<>>,
             neg_ids |-> <<>>, raised |-> FALSE, dataset |-> <<>>]
NoOutcome == [op |-> "none", error |-> NoError, trained |-> FALSE]

\* the session right after __init__
SessionInitial ==
    /\ model = None
    /\ vibe_checker = None
    /\ titles = <<>>
    /\ last_hn_dataset = <<>>
    /\ imported_dataset = <<>>
    /\ built = NotBuilt
    /\ outcome = NoOutcome

SessionIdle ==
    /\ SessionInitial
    /\ feed = <<>>
    /\ pos_ids = <<>>
    /\ neg_ids = <<>>

----------------------------------------------------------------------------
(* The interface: labels of the story list and training_wrapper *)

\* LABEL_FAV, LABEL_NEU and LABEL_DIS are the emoji U+1F44D, U+1F610 and
\* U+1F44E in the source; the model names them
LABEL_FAV == "Favorite"
LABEL_NEU == "Neutral"
LABEL_DIS == "Dislike"

\* A lookup whose default is Favorite.
LabelGetDefaultFavorite(d, i) == IF i \in DOMAIN d THEN d[i] ELSE LABEL_FAV

\* labels.get(i, LABEL_NEU)
LabelGet(d, i) == IF i \in DOMAIN d THEN d[i] ELSE LABEL_NEU

\* the loop of training_wrapper from index i (0-based) on: pos_ids and
\* neg_ids grow by append
RECURSIVE LabelPools(_, _, _, _)
LabelPools(n_stories, d, i, acc) ==
    IF i >= n_stories THEN acc
    ELSE LET label == LabelGet(d, i)
         IN  LabelPools(n_stories, d, i + 1,
                        IF label = LABEL_FAV
                        THEN [acc EXCEPT !.pos_ids = Append(@, i)]
                        ELSE IF label = LABEL_DIS
                        THEN [acc EXCEPT !.neg_ids = Append(@, i)]
                        ELSE acc)

\* the interface before the first load
UiIdle ==
    /\ stories = <<>>
    /\ labels = [i \in {} |-> LABEL_NEU]

----------------------------------------------------------------------------
(* score_held_out_items, format_taste_final and TasteTracker *)

\* a dict with no key
EmptyMap == [a \in {} |-> <<>>]

\* results[g.anchor] = sims: the dict d with key k set to v
MapSet(d, k, v) == [a \in (DOMAIN d) \cup {k} |-> IF a = k THEN v ELSE d[a]]

GroupSimsReversed(s, g) ==
    [i \in 1..Len(g.items) |-> s[<<g.anchor, g.items[Len(g.items) + 1 - i].text>>]]

\* util.cos_sim(anchor_emb, text_embs)[0].tolist() for one group: one score
\* per item, in item order, as the current weights give it
GroupSims(s, g) == [i \in 1..Len(g.items) |-> s[<<g.anchor, g.items[i].text>>]]

\* the loop of score_held_out_items
RECURSIVE ScoreLoop(_, _, _)
ScoreLoop(s, groups, res) ==
    IF groups = <<>> THEN res
    ELSE ScoreLoop(s, Tail(groups),
                   MapSet(res, Head(groups).anchor, GroupSims(s, Head(groups))))

score_held_out_items(s, groups) == ScoreLoop(s, groups, EmptyMap)

\* one model.encode call: the group it is made for, whether it is the
\* batched call on the list of item texts, and the texts it is given
EncodeCall(k, batched, texts) == [group |-> k, batched |-> batched, texts |-> texts]

\* A body that embeds the item texts one at a time.
GroupCallsPerItem(groups, k) ==
    <<EncodeCall(k, FALSE, <<groups[k].anchor>>)>>
    \o [i \in 1..Len(groups[k].items) |->
           EncodeCall(k, TRUE, <<groups[k].items[i].text>>)]

\* the two model.encode calls of the loop body for group k: the anchor,
\* then texts = [item.text for item in g.items] in one call
GroupCalls(groups, k) ==
    << EncodeCall(k, FALSE, <<groups[k].anchor>>),
       EncodeCall(k, TRUE, [i \in 1..Len(groups[k].items) |-> groups[k].items[i].text]) >>

\* the model.encode calls of score_held_out_items from group k on; fail
\* names the call that raises: the anchor call or the batched call of
\* group fail.at (fail.at = 0: no call raises)
RECURSIVE EncodeLoop(_, _, _, _)
EncodeLoop(groups, k, fail, calls) ==
    IF k > Len(groups) THEN [calls |-> calls, raised |-> FALSE]
    ELSE IF fail.at = k
    THEN [calls |-> calls \o (IF fail.batched THEN GroupCalls(groups, k)
                              ELSE <<GroupCalls(groups, k)[1]>>),
          raised |-> TRUE]
    ELSE EncodeLoop(groups, k + 1, fail, calls \o GroupCalls(groups, k))

NotScored == [called |-> FALSE, raised |-> FALSE, scores |-> EmptyMap]

ScoreIdle ==
    /\ sc_groups = <<>>
    /\ sc_sim = EmptyMap
    /\ encode_log = <<>>
    /\ scored = NotScored

\* zip(g.items, scores[g.anchor]): item.baseline_score = s for one group
WithBaseline(g, sc) ==
    [g EXCEPT !.items =
        [i \in 1..Len(g.items) |->
            IF i <= Len(sc) THEN [g.items[i] EXCEPT !.baseline_score = sc[i]]
            ELSE g.items[i]]]

\* a quotient n / d the code computes in floating point, kept exact
FracOf(n, d) == [num |-> n, den |-> d]

RECURSIVE SeqSum(_)
SeqSum(xs) == IF xs = <<>> THEN 0 ELSE Head(xs) + SeqSum(Tail(xs))

\* sum(xs) / len(xs) if xs else 0
Mean(xs) == IF xs = <<>> THEN FracOf(0, 1) ELSE FracOf(SeqSum(xs), Len(xs))

\* gap = avg_p - avg_n
FracSub(a, b) == FracOf(a.num * b.den - b.num * a.den, a.den * b.den)

\* the values of vals at the items of the given polarity, in item order, over
\* zip(items, vals): pos_scores / neg_scores, bp / bn, pos_before, ...
RECURSIVE PolarityList(_, _, _)
PolarityList(items, vals, pol) ==
    IF items = <<>> \/ vals = <<>> THEN <<>>
    ELSE (IF Head(items).is_positive = pol THEN <<Head(vals)>> ELSE <<>>)
         \o PolarityList(Tail(items), Tail(vals), pol)

\* [it.baseline_score for it in g.items]
BaselineList(items) == [i \in 1..Len(items) |-> items[i].baseline_score]

\* A count that takes a tie for a win.
RECURSIVE CountBelowOrEqual(_, _)
CountBelowOrEqual(ps, neg) ==
    IF neg = <<>> THEN 0
    ELSE (IF ps >= Head(neg) THEN 1 ELSE 0) + CountBelowOrEqual(ps, Tail(neg))

\* sum(1 for ns in neg if ps > ns)
RECURSIVE CountBelow(_, _)
CountBelow(ps, neg) ==
    IF neg = <<>> THEN 0
    ELSE (IF ps > Head(neg) THEN 1 ELSE 0) + CountBelow(ps, Tail(neg))

\* n_correct = sum(1 for ps in pos for ns in neg if ps > ns)
RECURSIVE PairsCorrect(_, _)
PairsCorrect(pos, neg) ==
    IF pos = <<>> THEN 0
    ELSE CountBelow(Head(pos), neg) + PairsCorrect(Tail(pos), neg)

PairPctOverItems(pos, neg, n_pairs) ==
    IF Len(pos) + Len(neg) = 0 THEN FracOf(0, 1)
    ELSE FracOf(PairsCorrect(pos, neg) * 100, Len(pos) + Len(neg))

\* pair_pct = (n_correct / n_pairs * 100) if n_pairs else 0
PairPct(pos, neg, n_pairs) ==
    IF n_pairs = 0 THEN FracOf(0, 1)
    ELSE FracOf(PairsCorrect(pos, neg) * 100, n_pairs)

\* f"{pair_pct:.0f}": the whole percent the table shows
PctShown(pct) == RoundHalfEven(pct.num, pct.den)

NoDelta == "no delta"

\* the item lines of format_taste_table: tag, label, score and, with
\* show_baseline_delta, the delta from the baseline
TableLines(g, sc, show_baseline_delta) ==
    [i \in 1..(IF Len(sc) < Len(g.items) THEN Len(sc) ELSE Len(g.items)) |->
        [tag |-> IF g.items[i].is_positive THEN "+" ELSE "-",
         label |-> Take(g.items[i].text, 50),
         score |-> sc[i],
         delta |-> IF show_baseline_delta
                   THEN sc[i] - g.items[i].baseline_score ELSE NoDelta]]

\* the closing line of one group of format_taste_table
TableAggregate(g, sc, show_baseline_delta) ==
    LET pos_scores == PolarityList(g.items, sc, TRUE)
        neg_scores == PolarityList(g.items, sc, FALSE)
        avg_p == Mean(pos_scores)
        avg_n == Mean(neg_scores)
        n_pairs == Len(pos_scores) * Len(neg_scores)
        pair_pct == PairPct(pos_scores, neg_scores, n_pairs)
        bp == PolarityList(g.items, BaselineList(g.items), TRUE)
        bn == PolarityList(g.items, BaselineList(g.items), FALSE)
        base_pct == PairPct(bp, bn, Len(bp) * Len(bn))
    IN  [avg_p |-> avg_p, avg_n |-> avg_n, gap |-> FracSub(avg_p, avg_n),
         pair_pct |-> pair_pct, pair_shown |-> PctShown(pair_pct),
         was_gap |-> IF show_baseline_delta
                     THEN FracSub(Mean(bp), Mean(bn)) ELSE NoDelta,
         was_pct |-> IF show_baseline_delta THEN base_pct ELSE NoDelta,
         was_shown |-> IF show_baseline_delta THEN PctShown(base_pct)
                       ELSE NoDelta]

format_taste_table(groups, scores, header, show_baseline_delta) ==
    [header |-> header,
     groups |->
        [k \in 1..Len(groups) |->
            [anchor |-> groups[k].anchor,
             n_items |-> Len(groups[k].items),
             lines |-> TableLines(groups[k], scores[groups[k].anchor],
                                  show_baseline_delta),
             agg |-> TableAggregate(groups[k], scores[groups[k].anchor],
                                    show_baseline_delta)]]]

\* the item lines of format_taste_final: per group and item the polarity
\* tag, the text, the score before, the score after and the delta
FinalLines(g, sc) ==
    [i \in 1..(IF Len(sc) < Len(g.items) THEN Len(sc) ELSE Len(g.items)) |->
        [tag |-> IF g.items[i].is_positive THEN "+" ELSE "-",
         label |-> Take(g.items[i].text, 50),
         before |-> g.items[i].baseline_score,
         after |-> sc[i],
         delta |-> sc[i] - g.items[i].baseline_score]]

\* the closing line of one group of format_taste_final
FinalAggregate(g, sc) ==
    LET pos_before == PolarityList(g.items, BaselineList(g.items), TRUE)
        pos_after == PolarityList(g.items, sc, TRUE)
        neg_before == PolarityList(g.items, BaselineList(g.items), FALSE)
        neg_after == PolarityList(g.items, sc, FALSE)
        n_pairs == Len(pos_before) * Len(neg_before)
        pct_b == PairPct(pos_before, neg_before, n_pairs)
        pct_a == PairPct(pos_after, neg_after, n_pairs)
    IN  [avg_pb |-> Mean(pos_before), avg_pa |-> Mean(pos_after),
         avg_nb |-> Mean(neg_before), avg_na |-> Mean(neg_after),
         gap_b |-> FracSub(Mean(pos_before), Mean(neg_before)),
         gap_a |-> FracSub(Mean(pos_after), Mean(neg_after)),
         pct_b |-> pct_b, pct_a |-> pct_a,
         shown_b |-> PctShown(pct_b), shown_a |-> PctShown(pct_a)]

format_taste_final(groups, final) ==
    [k \in 1..Len(groups) |->
        [anchor |-> groups[k].anchor,
         lines |-> FinalLines(groups[k], final[groups[k].anchor]),
         agg |-> FinalAggregate(groups[k], final[groups[k].anchor])]]

\* the result "" of get_final_summary
EmptySummary == <<>>

NotAsked == "not asked"

\* no table printed yet
NotPrinted == [header |-> <<>>, groups |-> <<>>]

ExternalFailure == "embedding capability raised"
StateError == "StateError"

\* a call on the tracker: the method, how it ended, and the group the
\* encoder was scoring when it raised (0 when it did not raise)
TrackerCall(op, error, at) == [op |-> op, error |-> error, at |-> at]

NoCall == TrackerCall("__init__", NoError, 0)

TrackerIdle ==
    /\ tt_groups = <<>>
    /\ final_scores = EmptyMap
    /\ sim = EmptyMap
    /\ n_begin = 0
    /\ n_epoch = 0
    /\ summary = NotAsked
    /\ tt_call = NoCall

\* no table formatted yet
NoReport == <<>>

ReportIdle ==
    /\ rp_groups = <<>>
    /\ rp_scores = EmptyMap
    /\ printed = NotPrinted
    /\ final_report = NoReport

----------------------------------------------------------------------------
(* CSV import: import_additional_dataset of the app, load_csv and main of  *)
(* train.py.  A file is the list of rows csv.reader yields from it, each a *)
(* list of fields; a blank line is the row <<>>.                           *)

\* str.lower()
LowerText(s) == [i \in 1..Len(s) |-> Lower(s[i])]

RECURSIVE LStrip(_)
LStrip(s) == IF s # <<>> /\ IsSpace(Head(s)) THEN LStrip(Tail(s)) ELSE s

RECURSIVE RStrip(_)
RStrip(s) ==
    IF s # <<>> /\ IsSpace(s[Len(s)]) THEN RStrip(SubSeq(s, 1, Len(s) - 1)) ELSE s

\* str.strip()
Strip(s) == RStrip(LStrip(s))

WordAnchor == <<"a", "n", "c", "h", "o", "r">>
WordPositive == <<"p", "o", "s", "i", "t", "i", "v", "e">>
WordNegative == <<"n", "e", "g", "a", "t", "i", "v", "e">>

\* kinds of file: no path given, a path open() fails on, a readable file,
\* and a file whose rows can be read until the reader raises
CsvFile(kind, rows) == [kind |-> kind, rows |-> rows]

NoPath == CsvFile("no path", <<>>)
MissingFile == CsvFile("missing", <<>>)

\* how an import_additional_dataset call ended
MsgImported == "Imported N triplets."
MsgFailed == "Import failed"

ImportResult(dataset, msg, n) == [dataset |-> dataset, msg |-> msg, n |-> n]

\* [s.strip() for s in row]
StripRow(row) == [i \in 1..Len(row) |-> Strip(row[i])]

IsImportHeaderNever(row) == FALSE

\* header and header[0].lower().strip() == 'anchor'
IsImportHeader(row) == row # <<>> /\ Strip(LowerText(row[1])) = WordAnchor

\* for row in reader: if len(row) == 3: new_dataset.append(stripped row)
RECURSIVE ImportRows(_, _)
ImportRows(rows, new_dataset) ==
    IF rows = <<>> THEN new_dataset
    ELSE ImportRows(Tail(rows),
                    IF Len(Head(rows)) = 3
                    THEN Append(new_dataset, StripRow(Head(rows)))
                    ELSE new_dataset)

\* the rows the loop of import_additional_dataset sees: all of them after
\* f.seek(0), or those after a header
RowsAfterImportHeader(rows) ==
    IF IsImportHeader(Head(rows)) THEN Tail(rows) ELSE rows

ImportAssignsEarly(current, file) ==
    IF file.kind = "no path" THEN ImportResult(current, "Please upload a CSV file.", 0)
    ELSE IF file.kind = "missing" THEN ImportResult(current, MsgFailed, 0)
    ELSE IF file.rows = <<>>
         THEN IF file.kind = "corrupt" THEN ImportResult(current, MsgFailed, 0)
              ELSE ImportResult(current, "Error: Uploaded file is empty.", 0)
    ELSE LET new_dataset == ImportRows(RowsAfterImportHeader(file.rows), <<>>)
         IN  IF file.kind = "corrupt" \/ Len(new_dataset) = 0
             THEN ImportResult(new_dataset, MsgFailed, 0)
             ELSE ImportResult(new_dataset, MsgImported, Len(new_dataset))

\* import_additional_dataset(file_path): self.imported_dataset afterwards
\* and the message returned
import_additional_dataset(current, file) ==
    IF file.kind = "no path" THEN ImportResult(current, "Please upload a CSV file.", 0)
    ELSE IF file.kind = "missing" THEN ImportResult(current, MsgFailed, 0)
    ELSE IF file.rows = <<>>
         THEN IF file.kind = "corrupt" THEN ImportResult(current, MsgFailed, 0)
              ELSE ImportResult(current, "Error: Uploaded file is empty.", 0)
    ELSE LET new_dataset == ImportRows(RowsAfterImportHeader(file.rows), <<>>)
         IN  IF file.kind = "corrupt" \/ Len(new_dataset) = 0
             THEN ImportResult(current, MsgFailed, 0)
             ELSE ImportResult(new_dataset, MsgImported, Len(new_dataset))

\* maybe_append_triplet(row) of load_csv
maybe_append_triplet(triplets_, row) ==
    IF Len(row) < 3 THEN triplets_
    ELSE LET anchor == Strip(row[1])
             positive == Strip(row[2])
             negative == Strip(row[3])
         IN  IF anchor # <<>> /\ positive # <<>> /\ negative # <<>>
             THEN Append(triplets_, <<anchor, positive, negative>>)
             ELSE triplets_

\* is_header of load_csv
IsCsvHeader(first_row) ==
    /\ Len(first_row) >= 3
    /\ LowerText(Strip(first_row[1])) = WordAnchor
    /\ LowerText(Strip(first_row[2])) = WordPositive
    /\ LowerText(Strip(first_row[3])) = WordNegative

\* for row in reader: maybe_append_triplet(row)
RECURSIVE LoadRows(_, _)
LoadRows(rows, triplets_) ==
    IF rows = <<>> THEN triplets_
    ELSE LoadRows(Tail(rows), maybe_append_triplet(triplets_, Head(rows)))

\* load_csv(path): the triplets returned, or the exception of open() or of
\* the reader, which load_csv does not catch
load_csv(file) ==
    IF file.kind \in {"no path", "missing"}
    THEN [raised |-> TRUE, triplets |-> <<>>]
    ELSE IF file.rows = <<>>
         THEN [raised |-> file.kind = "corrupt", triplets |-> <<>>]
    ELSE LET first_row == Head(file.rows)
             first == IF IsCsvHeader(first_row) THEN <<>>
                      ELSE maybe_append_triplet(<<>>, first_row)
         IN  IF file.kind = "corrupt" THEN [raised |-> TRUE, triplets |-> <<>>]
             ELSE [raised |-> FALSE,
                   triplets |-> LoadRows(Tail(file.rows), first)]

\* how main() of train.py ends
ExitUsage == "parser.error: exit status 2"
NotRun == "not run"

\* what split_held_out returned to main, if main came to call it
NoPartition == [made |-> FALSE, train |-> <<>>, held |-> <<>>]
Partition(sp) == [made |-> TRUE, train |-> sp.train, held |-> sp.held]

CliResult(exit, loaded, partition) ==
    [exit |-> exit, loaded |-> loaded, partition |-> partition]

MainNoFractionCheck(args, file) ==
    IF args.epochs <= 0 THEN CliResult(ExitUsage, <<>>, NoPartition)
    ELSE IF args.lr.num <= 0
         THEN CliResult(ExitUsage, <<>>, NoPartition)
    ELSE IF args.serve # None
         THEN CliResult("served", <<>>, NoPartition)
    ELSE IF args.convert_only # None
         THEN CliResult("converted", <<>>, NoPartition)
    ELSE IF file.kind = "no path"
         THEN CliResult("print_help: exit status 1", <<>>, NoPartition)
    ELSE LET loaded == load_csv(file)
             sp == split_held_out(loaded.triplets, args.heldout_fraction,
                                  args.heldout_min_anchor_triplets, args.seed)
         IN  IF loaded.raised
             THEN CliResult("uncaught exception", <<>>, NoPartition)
             ELSE IF Len(sp.train) < 2
                  THEN CliResult("too few triplets: exit status 1", loaded.triplets, Partition(sp))
                  ELSE CliResult("trained and converted", loaded.triplets, Partition(sp))

\* main(): argument checks, serve and convert-only modes, then load_csv,
\* split_held_out and the size check before training
main(args, file) ==
    IF args.epochs <= 0 THEN CliResult(ExitUsage, <<>>, NoPartition)
    ELSE IF args.lr.num <= 0
         THEN CliResult(ExitUsage, <<>>, NoPartition)
    ELSE IF ~(0 <= args.heldout_fraction.num
              /\ args.heldout_fraction.num < args.heldout_fraction.den)
         THEN CliResult(ExitUsage, <<>>, NoPartition)
    ELSE IF args.serve # None
         THEN CliResult("served", <<>>, NoPartition)
    ELSE IF args.convert_only # None
         THEN CliResult("converted", <<>>, NoPartition)
    ELSE IF file.kind = "no path"
         THEN CliResult("print_help: exit status 1", <<>>, NoPartition)
    ELSE LET loaded == load_csv(file)
             sp == split_held_out(loaded.triplets, args.heldout_fraction,
                                  args.heldout_min_anchor_triplets, args.seed)
         IN  IF loaded.raised
             THEN CliResult("uncaught exception", <<>>, NoPartition)
             ELSE IF Len(sp.train) < 2
                  THEN CliResult("too few triplets: exit status 1", loaded.triplets, Partition(sp))
                  ELSE CliResult("trained and converted", loaded.triplets, Partition(sp))

NoImportCall == [file |-> NoPath, msg |-> "no call", n |-> 0]

NoArgs ==
    [epochs |-> 4, lr |-> FracOf(2, 100000),
     heldout_fraction |-> FracOf(15, 100), heldout_min_anchor_triplets |-> 4,
     seed |-> 42, serve |-> None, convert_only |-> None]

ImportIdle ==
    /\ process = "none"
    /\ csv_file = NoPath
    /\ n_imports = 0
    /\ import_call = NoImportCall
    /\ cli_args = NoArgs
    /\ cli_result = CliResult(NotRun, <<>>, NoPartition)

----------------------------------------------------------------------------
(* Inputs of the splitter *)

Calls == {1, 2}

\* "a b", "A  B" (re-cased, re-spaced), "c", " C " (re-cased, padded), "d"
TxtAB == <<"a", " ", "b">>
TxtAB2 == <<"A", " ", " ", "B">>
TxtC == <<"c">>
TxtC2 == <<" ", "C", " ">>
TxtD == <<"d">>

\* Rows with texts duplicated, re-cased and re-spaced across rows, within a
\* row and across anchors.
RowPool ==
    { <<"X", TxtAB, TxtC>>,
      <<"X", TxtAB2, TxtD>>,
      <<"X", TxtD, TxtC2>>,
      <<"X", TxtAB, TxtAB2>>,
      <<"Y", TxtAB, TxtC>>,
      <<"Y", TxtC2, TxtD>> }

Fractions ==
    { [num |-> 0, den |-> 1], [num |-> 1, den |-> 4],
      [num |-> 1, den |-> 2], [num |-> 3, den |-> 4] }

MinAnchorChoices == {1, 2, 3}

Seeds == {7, 42}

NoResult == [done |-> FALSE, train |-> <<>>, held |-> <<>>, log |-> <<>>]

\* the locals of an invocation that has not started: pc is the position in
\* the body, anchors the keys of by_anchor the loop has still to visit, rng
\* the generator of the call, acc the lists built so far
NoFrame == [pc |-> "not called", anchors |-> <<>>, rng |-> 0, acc |-> EmptySplit]

SplitIdle ==
    /\ triplets = <<>>
    /\ fraction = [num |-> 0, den |-> 1]
    /\ min_anchor_triplets = 2
    /\ seed = 7
    /\ global_rng = 1
    /\ global_draws = 0
    /\ results = [c \in Calls |-> NoResult]
    /\ frames = [c \in Calls |-> NoFrame]

InitSplit ==
    /\ triplets \in SeqsUpTo(RowPool, MaxRows)
    /\ fraction \in Fractions
    /\ min_anchor_triplets \in MinAnchorChoices
    /\ seed \in Seeds
    /\ global_rng = 1
    /\ global_draws = 0
    /\ results = [c \in Calls |-> NoResult]
    /\ frames = [c \in Calls |-> NoFrame]
    /\ SessionIdle
    /\ TrackerIdle
    /\ ReportIdle
    /\ ImportIdle
    /\ UiIdle
    /\ ScoreIdle

\* One invocation split_held_out(triplets, fraction, min_anchor_triplets, seed)
SplitCall(c) ==
    /\ ~results[c].done
    /\ LET r == split_held_out(triplets, fraction, min_anchor_triplets, seed)
       IN  results' = [results EXCEPT ![c] =
                          [done |-> TRUE, train |-> r.train, held |-> r.held,
                           log |-> r.log]]
    /\ UNCHANGED <<triplets, fraction, min_anchor_triplets, seed,
                   global_rng, global_draws, frames>>

\* Other code draws from the module-level generator of `random`
GlobalDraw ==
    /\ global_draws < MaxDraws
    /\ global_rng' = RngNext(global_rng)
    /\ global_draws' = global_draws + 1
    /\ UNCHANGED <<triplets, fraction, min_anchor_triplets, seed, results,
                   frames>>

NextSplit ==
    \/ \E c \in Calls :
          SplitCall(c) /\ UNCHANGED <<sessionVars, trackerVars, reportVars, importVars, uiVars, scoreVars>>
    \/ GlobalDraw /\ UNCHANGED <<sessionVars, trackerVars, reportVars, importVars, uiVars, scoreVars>>

SpecSplit == InitSplit /\ [][NextSplit]_vars

----------------------------------------------------------------------------
(* split_held_out run step by step: invocations interleave with each other
   and with draws from the module-level generator *)

\* An iteration that shuffles with the module-level generator and leaves
\* its advanced state behind.
SplitStepSharedRng(fr, g, rows, f, m) ==
    LET anchor == Head(fr.anchors)
        mine == RowsOf(rows, anchor)
    IN  IF GoesAllToTrain(Len(mine), m)
        THEN [frame |-> [fr EXCEPT !.anchors = Tail(@),
                                   !.acc.train = @ \o mine],
              global |-> g]
        ELSE LET sh == Shuffle(mine, g)
                 n_held == NHeld(Len(mine), f)
                 held_rows == Take(sh.list, n_held)
                 train_part == Drop(sh.list, n_held)
                 items == CollectItems(Candidates(held_rows),
                                       TrainNorms(train_part), {}, <<>>)
             IN  [frame |-> [pc |-> fr.pc, anchors |-> Tail(fr.anchors),
                             rng |-> fr.rng,
                             acc |-> [train |-> fr.acc.train \o train_part,
                                      held |-> AppendGroup(fr.acc.held, anchor, items),
                                      log |-> Append(fr.acc.log,
                                                     [anchor |-> anchor,
                                                      held_rows |-> held_rows,
                                                      train_part |-> train_part])]],
                  global |-> sh.rng]

\* One iteration of the loop over by_anchor.items() on the locals fr of an
\* invocation; g is the state of the module-level generator, which the
\* iteration neither reads nor writes: rng.shuffle advances fr.rng only
SplitStep(fr, g, rows, f, m) ==
    LET anchor == Head(fr.anchors)
        mine == RowsOf(rows, anchor)
    IN  IF GoesAllToTrain(Len(mine), m)
        THEN [frame |-> [fr EXCEPT !.anchors = Tail(@),
                                   !.acc.train = @ \o mine],
              global |-> g]
        ELSE LET sh == Shuffle(mine, fr.rng)
                 n_held == NHeld(Len(mine), f)
                 held_rows == Take(sh.list, n_held)
                 train_part == Drop(sh.list, n_held)
                 items == CollectItems(Candidates(held_rows),
                                       TrainNorms(train_part), {}, <<>>)
             IN  [frame |-> [pc |-> fr.pc, anchors |-> Tail(fr.anchors),
                             rng |-> sh.rng,
                             acc |-> [train |-> fr.acc.train \o train_part,
                                      held |-> AppendGroup(fr.acc.held, anchor, items),
                                      log |-> Append(fr.acc.log,
                                                     [anchor |-> anchor,
                                                      held_rows |-> held_rows,
                                                      train_part |-> train_part])]],
                  global |-> g]

InterleaveFractions == { [num |-> 0, den |-> 1], [num |-> 1, den |-> 2] }

InitInterleave ==
    /\ triplets \in SeqsUpTo(RowPool, MaxRows)
    /\ fraction \in InterleaveFractions
    /\ min_anchor_triplets = 2
    /\ seed \in Seeds
    /\ global_rng = 1
    /\ global_draws = 0
    /\ results = [c \in Calls |-> NoResult]
    /\ frames = [c \in Calls |-> NoFrame]
    /\ SessionIdle
    /\ TrackerIdle
    /\ ReportIdle
    /\ ImportIdle
    /\ UiIdle
    /\ ScoreIdle

\* invocation c enters the body: fraction == 0 returns at once, otherwise
\* the call creates its generator and groups the rows by anchor
SplitBegin(c) ==
    /\ frames[c].pc = "not called"
    /\ IF fraction.num = 0
       THEN /\ frames' = [frames EXCEPT ![c].pc = "returned"]
            /\ results' = [results EXCEPT ![c] =
                              [done |-> TRUE, train |-> triplets, held |-> <<>>,
                               log |-> <<>>]]
       ELSE /\ frames' = [frames EXCEPT ![c] =
                             [pc |-> "loop",
                              anchors |-> AnchorOrder(triplets, <<>>),
                              rng |-> NewRandom(seed), acc |-> EmptySplit]]
            /\ results' = results
    /\ UNCHANGED <<triplets, fraction, min_anchor_triplets, seed,
                   global_rng, global_draws>>

\* invocation c runs one iteration of its loop
SplitAnchor(c) ==
    /\ frames[c].pc = "loop"
    /\ frames[c].anchors # <<>>
    /\ LET st == SplitStep(frames[c], global_rng, triplets, fraction,
                           min_anchor_triplets)
       IN  /\ frames' = [frames EXCEPT ![c] = st.frame]
           /\ global_rng' = st.global
    /\ UNCHANGED <<triplets, fraction, min_anchor_triplets, seed,
                   global_draws, results>>

\* invocation c leaves the loop and returns its two lists
SplitReturn(c) ==
    /\ frames[c].pc = "loop"
    /\ frames[c].anchors = <<>>
    /\ frames' = [frames EXCEPT ![c].pc = "returned"]
    /\ results' = [results EXCEPT ![c] =
                      [done |-> TRUE, train |-> frames[c].acc.train,
                       held |-> frames[c].acc.held, log |-> frames[c].acc.log]]
    /\ UNCHANGED <<triplets, fraction, min_anchor_triplets, seed,
                   global_rng, global_draws>>

NextInterleave ==
    \/ \E c \in Calls :
          SplitBegin(c) /\ UNCHANGED <<sessionVars, trackerVars, reportVars, importVars, uiVars, scoreVars>>
    \/ \E c \in Calls :
          SplitAnchor(c) /\ UNCHANGED <<sessionVars, trackerVars, reportVars, importVars, uiVars, scoreVars>>
    \/ \E c \in Calls :
          SplitReturn(c) /\ UNCHANGED <<sessionVars, trackerVars, reportVars, importVars, uiVars, scoreVars>>
    \/ GlobalDraw /\ UNCHANGED <<sessionVars, trackerVars, reportVars, importVars, uiVars, scoreVars>>

SpecInterleave == InitInterleave /\ [][NextInterleave]_vars

----------------------------------------------------------------------------
(* The session: requests of one user *)

InitSession ==
    /\ SessionInitial
    /\ feed \in TitleFeeds
    /\ pos_ids \in InjSeqsUpTo(IdIndices, MaxIds)
    /\ neg_ids \in InjSeqsUpTo(IdIndices, MaxIds)
    /\ SplitIdle
    /\ TrackerIdle
    /\ ReportIdle
    /\ ImportIdle
    /\ UiIdle
    /\ ScoreIdle

\* the record of a _create_hn_dataset(P, N) call on title list T
BuiltBy(T, P, N) ==
    [called |-> TRUE, titles |-> T, pos_ids |-> P, neg_ids |-> N,
     raised |-> CreateRaises(T, P, N),
     dataset |-> IF CreateRaises(T, P, N) THEN <<>> ELSE _create_hn_dataset(T, P, N)]

\* _update_vibe_checker for a model value
VibeCheckerFor(mdl) == IF mdl # None THEN "VibeChecker" ELSE None

\* is_model_tuned()
is_model_tuned(dataset) == dataset # <<>>

\* export_dataset(): None without a dataset or when the file cannot be
\* written, otherwise the path of the exported file
export_dataset(dataset, written) ==
    IF dataset = <<>> THEN None
    ELSE IF written THEN "training_dataset.csv" ELSE None

\* refresh_data_and_model: reset both datasets, reload the model, fetch titles
RefreshDataAndModel ==
    /\ last_hn_dataset' = <<>>
    /\ imported_dataset' = <<>>
    /\ \/ \* the model fails to load: early return, titles stay
          /\ model' = None
          /\ vibe_checker' = VibeCheckerFor(None)
          /\ titles' = titles
       \/ \* the model loads; the feed has entries, or the fetch fails
          /\ model' = "base"
          /\ vibe_checker' = VibeCheckerFor("base")
          /\ titles' \in {feed, FeedErrorTitles}
    /\ outcome' = [op |-> "refresh", error |-> NoError, trained |-> FALSE]
    /\ UNCHANGED <<feed, pos_ids, neg_ids, built>>

\* a direct call _create_hn_dataset(pos_ids, neg_ids)
CreateHnDataset ==
    /\ built' = BuiltBy(titles, pos_ids, neg_ids)
    /\ UNCHANGED <<model, vibe_checker, titles, last_hn_dataset,
                   imported_dataset, feed, pos_ids, neg_ids, outcome>>

\* training(pos_ids, neg_ids) that is rejected by the checks at its head
TrainingRejected ==
    /\ TrainingValidation(model, pos_ids, neg_ids) # NoError
    /\ outcome' = [op |-> "training", trained |-> FALSE,
                   error |-> TrainingValidation(model, pos_ids, neg_ids)]
    /\ UNCHANGED <<model, vibe_checker, titles, last_hn_dataset,
                   imported_dataset, feed, pos_ids, neg_ids, built>>

\* training(pos_ids, neg_ids) in which _create_hn_dataset raises
TrainingIndexError ==
    /\ TrainingValidation(model, pos_ids, neg_ids) = NoError
    /\ CreateRaises(titles, pos_ids, neg_ids)
    /\ built' = BuiltBy(titles, pos_ids, neg_ids)
    /\ outcome' = [op |-> "training", trained |-> FALSE, error |-> IndexError]
    /\ UNCHANGED <<model, vibe_checker, titles, last_hn_dataset,
                   imported_dataset, feed, pos_ids, neg_ids>>

\* training(pos_ids, neg_ids) that passes the checks: the dataset is built,
\* merged with the imported one and stored, then the training step runs
TrainingRun ==
    /\ TrainingValidation(model, pos_ids, neg_ids) = NoError
    /\ ~CreateRaises(titles, pos_ids, neg_ids)
    /\ LET hn_dataset == _create_hn_dataset(titles, pos_ids, neg_ids)
           merged == IF imported_dataset # <<>>
                     THEN hn_dataset \o imported_dataset ELSE hn_dataset
       IN  /\ built' = BuiltBy(titles, pos_ids, neg_ids)
           /\ last_hn_dataset' = merged
           /\ IF merged = <<>>
              THEN /\ outcome' = [op |-> "training", trained |-> FALSE,
                                  error |-> ErrEmptyDataset]
                   /\ vibe_checker' = vibe_checker
              ELSE \E step \in TrainStepOutcomes :
                      IF step = "ok"
                      THEN /\ outcome' = [op |-> "training", trained |-> TRUE,
                                          error |-> NoError]
                           /\ vibe_checker' = VibeCheckerFor(model)
                      ELSE /\ outcome' = [op |-> "training", trained |-> FALSE,
                                          error |-> TrainError]
                           /\ vibe_checker' = vibe_checker
    /\ UNCHANGED <<model, titles, imported_dataset, feed, pos_ids, neg_ids>>

NextSession ==
    \/ RefreshDataAndModel /\ UNCHANGED <<splitVars, trackerVars, reportVars, importVars, uiVars, scoreVars>>
    \/ CreateHnDataset /\ UNCHANGED <<splitVars, trackerVars, reportVars, importVars, uiVars, scoreVars>>
    \/ TrainingRejected /\ UNCHANGED <<splitVars, trackerVars, reportVars, importVars, uiVars, scoreVars>>
    \/ TrainingIndexError /\ UNCHANGED <<splitVars, trackerVars, reportVars, importVars, uiVars, scoreVars>>
    \/ TrainingRun /\ UNCHANGED <<splitVars, trackerVars, reportVars, importVars, uiVars, scoreVars>>

SpecSession == InitSession /\ [][NextSession]_vars

----------------------------------------------------------------------------
(* The interface: one user labels stories and presses the training button *)

UiFeeds == { <<"A", "B", "C">>, <<"A", "B">> }

\* the session and the interface states right after construction
InitUi ==
    /\ SessionInitial
    /\ feed \in UiFeeds
    /\ pos_ids = <<>>
    /\ neg_ids = <<>>
    /\ UiIdle
    /\ ScoreIdle
    /\ SplitIdle
    /\ TrackerIdle
    /\ ReportIdle
    /\ ImportIdle

\* refresh_wrapper: refresh_data_and_model, whose returned list ([] when
\* the model fails to load) becomes the story list, and the labels reset
RefreshWrapper ==
    /\ RefreshDataAndModel
    /\ stories' = IF model' = None THEN <<>> ELSE titles'
    /\ labels' = [i \in {} |-> LABEL_NEU]

\* update_label of the radio at row idx: rows exist for stories[:10]
UpdateLabel ==
    /\ \E idx \in 0..(Len(stories) - 1), new_val \in {LABEL_FAV, LABEL_NEU, LABEL_DIS} :
          /\ idx < 10
          /\ labels' = MapSet(labels, idx, new_val)
    /\ UNCHANGED <<sessionVars, stories>>

\* reset_all_selections
ResetAllSelections ==
    /\ labels' = [i \in {} |-> LABEL_NEU]
    /\ UNCHANGED <<sessionVars, stories>>

\* training(P, N) of the session, as TrainingRejected, TrainingIndexError
\* and TrainingRun do it for the lists of a request
Training(P, N) ==
    /\ pos_ids' = P
    /\ neg_ids' = N
    /\ IF TrainingValidation(model, P, N) # NoError
       THEN /\ outcome' = [op |-> "training", trained |-> FALSE,
                           error |-> TrainingValidation(model, P, N)]
            /\ UNCHANGED <<last_hn_dataset, vibe_checker, built>>
       ELSE IF CreateRaises(titles, P, N)
       THEN /\ built' = BuiltBy(titles, P, N)
            /\ outcome' = [op |-> "training", trained |-> FALSE,
                           error |-> IndexError]
            /\ UNCHANGED <<last_hn_dataset, vibe_checker>>
       ELSE LET hn_dataset == _create_hn_dataset(titles, P, N)
                merged == IF imported_dataset # <<>>
                          THEN hn_dataset \o imported_dataset ELSE hn_dataset
            IN  /\ built' = BuiltBy(titles, P, N)
                /\ last_hn_dataset' = merged
                /\ IF merged = <<>>
                   THEN /\ outcome' = [op |-> "training", trained |-> FALSE,
                                       error |-> ErrEmptyDataset]
                        /\ vibe_checker' = vibe_checker
                   ELSE \E step \in TrainStepOutcomes :
                           IF step = "ok"
                           THEN /\ outcome' = [op |-> "training", trained |-> TRUE,
                                               error |-> NoError]
                                /\ vibe_checker' = VibeCheckerFor(model)
                           ELSE /\ outcome' = [op |-> "training", trained |-> FALSE,
                                               error |-> TrainError]
                                /\ vibe_checker' = vibe_checker
    /\ UNCHANGED <<model, titles, imported_dataset, feed>>

\* training_wrapper(app, stories, labels): the pools are read off the
\* labels, then app.training(pos_ids, neg_ids) runs
TrainingWrapper ==
    /\ LET pools == LabelPools(Len(stories), labels, 0,
                               [pos_ids |-> <<>>, neg_ids |-> <<>>])
       IN  Training(pools.pos_ids, pools.neg_ids)
    /\ UNCHANGED <<stories, labels>>

NextUi ==
    \/ RefreshWrapper /\ UNCHANGED <<splitVars, trackerVars, reportVars, importVars, scoreVars>>
    \/ UpdateLabel /\ UNCHANGED <<splitVars, trackerVars, reportVars, importVars, scoreVars>>
    \/ ResetAllSelections /\ UNCHANGED <<splitVars, trackerVars, reportVars, importVars, scoreVars>>
    \/ TrainingWrapper /\ UNCHANGED <<splitVars, trackerVars, reportVars, importVars, scoreVars>>

SpecUi == InitUi /\ [][NextUi]_vars

----------------------------------------------------------------------------
(* The tracker driven by the training lifecycle *)

ScoreVals == {0, 1}

TrackerGroupLists ==
    { << [anchor |-> "X",
          items |-> <<HeldOutItem(TxtAB, TRUE), HeldOutItem(TxtC, FALSE)>>] >>,
      << [anchor |-> "X", items |-> <<HeldOutItem(TxtD, TRUE)>>],
         [anchor |-> "Y",
          items |-> <<HeldOutItem(TxtC, FALSE), HeldOutItem(TxtAB, TRUE)>>] >> }

\* the (anchor, text) pairs the tracker asks the model to compare
SimDomain(groups) ==
    UNION {{<<groups[k].anchor, groups[k].items[i].text>> :
               i \in 1..Len(groups[k].items)} : k \in 1..Len(groups)}

\* TasteTracker(model, groups, task_name); train_with_dataset builds one
\* only for a non-empty list of groups
InitTracker ==
    /\ tt_groups \in TrackerGroupLists
    /\ final_scores = EmptyMap
    /\ sim \in [SimDomain(tt_groups) -> ScoreVals]
    /\ n_begin = 0
    /\ n_epoch = 0
    /\ summary = NotAsked
    /\ tt_call = NoCall
    /\ SplitIdle
    /\ SessionIdle
    /\ ReportIdle
    /\ ImportIdle
    /\ UiIdle
    /\ ScoreIdle

\* on_train_begin: for g in self.groups: item.baseline_score = s
BaselineAtBegin(groups, scores) ==
    [k \in 1..Len(groups) |-> WithBaseline(groups[k], scores[groups[k].anchor])]

\* fail_at below: the encoder raises while group fail_at is scored (0: it
\* does not raise)
OnTrainBeginInterleaved(groups, s, fail_at) ==
    IF fail_at = 0
    THEN [groups |-> BaselineAtBegin(groups, score_held_out_items(s, groups)),
          error |-> NoError]
    ELSE [groups |->
            [k \in 1..Len(groups) |->
                IF k < fail_at
                THEN WithBaseline(groups[k], GroupSims(s, groups[k]))
                ELSE groups[k]],
          error |-> ExternalFailure]

\* on_train_begin: self.groups afterwards and the exception that left it.
\* score_held_out_items returns before the first baseline_score is written,
\* so an exception inside it skips the whole loop
on_train_begin(groups, s, fail_at) ==
    IF fail_at = 0
    THEN [groups |-> BaselineAtBegin(groups, score_held_out_items(s, groups)),
          error |-> NoError]
    ELSE [groups |-> groups, error |-> ExternalFailure]

OnEpochEndKeepFirst(final, groups, s, fail_at) ==
    IF fail_at = 0
    THEN [final |-> IF DOMAIN final = {}
                    THEN score_held_out_items(s, groups) ELSE final,
          error |-> NoError]
    ELSE [final |-> final, error |-> ExternalFailure]

\* on_epoch_end: self.final_scores afterwards and the exception that left it
on_epoch_end(final, groups, s, fail_at) ==
    IF fail_at = 0
    THEN [final |-> score_held_out_items(s, groups), error |-> NoError]
    ELSE [final |-> final, error |-> ExternalFailure]

GetFinalSummaryNoGuard(groups, final) ==
    format_taste_final(groups,
        [a \in {groups[k].anchor : k \in 1..Len(groups)} |->
            IF a \in DOMAIN final THEN final[a] ELSE <<>>])

\* get_final_summary()
get_final_summary(groups, final) ==
    IF DOMAIN final = {} THEN EmptySummary
    ELSE format_taste_final(groups, final)

\* on_train_begin(args, state, control); the table it prints on the main
\* process is output, not state of the tracker
OnTrainBegin ==
    /\ n_begin < MaxBegins
    /\ \E fail_at \in 0..Len(tt_groups) :
          LET r == on_train_begin(tt_groups, sim, fail_at)
          IN  /\ tt_groups' = r.groups
              /\ tt_call' = TrackerCall("on_train_begin", r.error, fail_at)
              /\ n_begin' = IF r.error = NoError THEN n_begin + 1 ELSE n_begin
    /\ UNCHANGED <<final_scores, sim, n_epoch, summary>>

\* the trainer updates the weights of the model while a run is under way
TrainStep ==
    /\ n_begin >= 1
    /\ sim' \in [SimDomain(tt_groups) -> ScoreVals]
    /\ sim' # sim
    /\ UNCHANGED <<tt_groups, final_scores, n_begin, n_epoch, summary, tt_call>>

\* on_epoch_end(args, state, control); the table it prints is output
OnEpochEnd ==
    /\ n_begin >= 1
    /\ n_epoch < MaxEpochs
    /\ \E fail_at \in 0..Len(tt_groups) :
          LET r == on_epoch_end(final_scores, tt_groups, sim, fail_at)
          IN  /\ final_scores' = r.final
              /\ tt_call' = TrackerCall("on_epoch_end", r.error, fail_at)
              /\ n_epoch' = IF r.error = NoError THEN n_epoch + 1 ELSE n_epoch
    /\ UNCHANGED <<tt_groups, sim, n_begin, summary>>

\* get_final_summary()
GetFinalSummary ==
    /\ summary' = get_final_summary(tt_groups, final_scores)
    /\ tt_call' = TrackerCall("get_final_summary", NoError, 0)
    /\ UNCHANGED <<tt_groups, final_scores, sim, n_begin, n_epoch>>

NextTracker ==
    \/ OnTrainBegin /\ UNCHANGED <<splitVars, sessionVars, reportVars, importVars, uiVars, scoreVars>>
    \/ TrainStep /\ UNCHANGED <<splitVars, sessionVars, reportVars, importVars, uiVars, scoreVars>>
    \/ OnEpochEnd /\ UNCHANGED <<splitVars, sessionVars, reportVars, importVars, uiVars, scoreVars>>
    \/ GetFinalSummary /\ UNCHANGED <<splitVars, sessionVars, reportVars, importVars, uiVars, scoreVars>>

SpecTracker == InitTracker /\ [][NextTracker]_vars

----------------------------------------------------------------------------
(* format_taste_table and format_taste_final applied to groups and scores *)

\* the items of a group with the given polarities and baseline scores
ReportItems(pols, bases) ==
    [i \in 1..Len(pols) |->
        [text |-> LET texts == <<TxtAB, TxtC, TxtD, TxtAB2, TxtC2>>
                  IN  texts[((i - 1) % Len(texts)) + 1],
         is_positive |-> pols[i],
         baseline_score |-> bases[i]]]

ItemLists(n) ==
    UNION {{ReportItems(pols, bases) :
               pols \in [1..k -> BOOLEAN], bases \in [1..k -> ScoreVals]} :
           k \in 1..n}

\* one group of up to MaxItems items, or two groups of half as many
ReportGroupLists ==
    {<<[anchor |-> "X", items |-> its]>> : its \in ItemLists(MaxItems)}
    \cup {<<[anchor |-> "X", items |-> i1], [anchor |-> "Y", items |-> i2]>> :
             i1 \in ItemLists(MaxItems \div 2), i2 \in ItemLists(MaxItems \div 2)}

\* score maps as score_held_out_items returns them for the groups
ScoreMapsFor(groups) ==
    {f \in [{groups[k].anchor : k \in 1..Len(groups)} ->
                SeqsUpTo(ScoreVals, MaxItems)] :
        \A k \in 1..Len(groups) : Len(f[groups[k].anchor]) = Len(groups[k].items)}

InitReport ==
    /\ rp_groups \in ReportGroupLists
    /\ rp_scores \in ScoreMapsFor(rp_groups)
    /\ printed = NotPrinted
    /\ final_report = NoReport
    /\ SplitIdle
    /\ SessionIdle
    /\ TrackerIdle
    /\ ImportIdle
    /\ UiIdle
    /\ ScoreIdle

\* format_taste_table(groups, scores, header, show_baseline_delta), as the
\* callbacks call it: "baseline" without deltas, "epoch N" with them
FormatTasteTable ==
    /\ \E show_baseline_delta \in BOOLEAN :
          printed' = format_taste_table(rp_groups, rp_scores,
                        IF show_baseline_delta THEN <<"epoch", 1>>
                        ELSE <<"baseline">>,
                        show_baseline_delta)
    /\ UNCHANGED <<rp_groups, rp_scores, final_report>>

\* format_taste_final(groups, final_scores)
FormatTasteFinal ==
    /\ final_report' = format_taste_final(rp_groups, rp_scores)
    /\ UNCHANGED <<rp_groups, rp_scores, printed>>

NextReport ==
    \/ FormatTasteTable /\ UNCHANGED <<splitVars, sessionVars, trackerVars, importVars, uiVars, scoreVars>>
    \/ FormatTasteFinal /\ UNCHANGED <<splitVars, sessionVars, trackerVars, importVars, uiVars, scoreVars>>

SpecReport == InitReport /\ [][NextReport]_vars

----------------------------------------------------------------------------
(* One scoring pass of score_held_out_items and its calls on the model *)

\* group lists as split_held_out returns them: baseline_score is 0.0
ScoreGroupLists ==
    {gl \in ReportGroupLists :
        \A k \in 1..Len(gl) : \A i \in 1..Len(gl[k].items) :
            gl[k].items[i].baseline_score = 0}

InitScore ==
    /\ sc_groups \in ScoreGroupLists
    /\ sc_sim \in [SimDomain(sc_groups) -> ScoreVals]
    /\ encode_log = <<>>
    /\ scored = NotScored
    /\ SplitIdle
    /\ SessionIdle
    /\ TrackerIdle
    /\ ReportIdle
    /\ ImportIdle
    /\ UiIdle

\* score_held_out_items(model, groups, task_name)
ScoreHeldOutItems ==
    /\ \E fail \in {[at |-> 0, batched |-> FALSE]}
                    \cup [at : 1..Len(sc_groups), batched : BOOLEAN] :
          LET pass == EncodeLoop(sc_groups, 1, fail, <<>>)
          IN  /\ encode_log' = pass.calls
              /\ scored' = [called |-> TRUE, raised |-> pass.raised,
                            scores |-> IF pass.raised THEN EmptyMap
                                       ELSE score_held_out_items(sc_sim, sc_groups)]
    /\ UNCHANGED <<sc_groups, sc_sim>>

\* the trainer updates the weights of the model between two passes
WeightsChange ==
    /\ scored.called
    /\ sc_sim' \in [SimDomain(sc_groups) -> ScoreVals]
    /\ sc_sim' # sc_sim
    /\ UNCHANGED <<sc_groups, encode_log, scored>>

NextScore ==
    \/ ScoreHeldOutItems /\ UNCHANGED <<splitVars, sessionVars, trackerVars, reportVars, importVars, uiVars>>
    \/ WeightsChange /\ UNCHANGED <<splitVars, sessionVars, trackerVars, reportVars, importVars, uiVars>>

SpecScore == InitScore /\ [][NextScore]_vars

----------------------------------------------------------------------------
(* The app importing CSV files, and train.py run on a CSV file *)

FAnchor == <<"A", "n", "c", "h", "o", "r">>
FPositive == <<"P", "o", "s", "i", "t", "i", "v", "e">>
FNegative == <<"N", "e", "g", "a", "t", "i", "v", "e">>
FX == <<"X">>
FP1 == <<"p", "1">>
FN1 == <<"n", "1">>

\* rows as csv.reader yields them: the header, a row that only starts like
\* one, data rows (plain, padded, with a blank field, short, long), and a
\* blank line
CsvRows ==
    { <<FAnchor, FPositive, FNegative>>,
      <<<<"a", "N", "c", "h", "o", "r", " ">>, FP1, FN1>>,
      <<FX, FP1, FN1>>,
      <<FX, <<" ", "p", "1", " ">>, FN1>>,
      <<FX, <<" ">>, FN1>>,
      <<FX, FP1>>,
      <<FX, FP1, FN1, FP1>>,
      <<>> }

CsvFiles ==
    {NoPath, MissingFile}
    \cup {CsvFile(kind, rows) :
             kind \in {"rows", "corrupt"}, rows \in SeqsUpTo(CsvRows, MaxFileRows)}

\* files the user may upload besides csv_file: one of each way to fail, and
\* one that imports
OtherUploads ==
    { NoPath, MissingFile, CsvFile("rows", <<>>),
      CsvFile("rows", << <<FX, FP1>> >>),
      CsvFile("corrupt", << <<FX, FP1, FN1>> >>),
      CsvFile("rows", << <<FX, FN1, FP1>> >>) }

CliFractions ==
    Fractions \cup {FracOf(0 - 1, 4), FracOf(4, 4), FracOf(5, 4)}

CliArgs ==
    [epochs : {0, 4}, lr : {FracOf(0, 1), FracOf(2, 100000)},
     heldout_fraction : CliFractions, heldout_min_anchor_triplets : {2},
     seed : {42}, serve : {None, "onnx_dir"}, convert_only : {None, "model_dir"}]

\* either the app with a fresh session, or train.py with its arguments
InitImport ==
    /\ process \in {"app", "cli"}
    /\ csv_file \in CsvFiles
    /\ n_imports = 0
    /\ import_call = NoImportCall
    /\ IF process = "cli" THEN cli_args \in CliArgs ELSE cli_args = NoArgs
    /\ cli_result = CliResult(NotRun, <<>>, NoPartition)
    /\ SessionInitial
    /\ feed = IF process = "app" THEN <<"A", "B", "C", "D", "E">> ELSE <<>>
    /\ pos_ids = <<>>
    /\ neg_ids = <<>>
    /\ SplitIdle
    /\ TrackerIdle
    /\ ReportIdle
    /\ UiIdle
    /\ ScoreIdle

\* import_additional_dataset(file_path), from import_wrapper
ImportAdditionalDataset ==
    /\ process = "app"
    /\ n_imports < MaxImports
    /\ \E file \in {csv_file} \cup OtherUploads :
          LET r == import_additional_dataset(imported_dataset, file)
          IN  /\ imported_dataset' = r.dataset
              /\ import_call' = [file |-> file, msg |-> r.msg, n |-> r.n]
    /\ n_imports' = n_imports + 1
    /\ UNCHANGED <<model, vibe_checker, titles, last_hn_dataset,
                   feed, pos_ids, neg_ids, built, outcome>>
    /\ UNCHANGED <<process, csv_file, cli_args, cli_result>>

\* the user reloads the session
ReloadSession ==
    /\ process = "app"
    /\ RefreshDataAndModel
    /\ UNCHANGED importVars

\* python train.py [csv_path] [options]
Main ==
    /\ process = "cli"
    /\ cli_result.exit = NotRun
    /\ cli_result' = main(cli_args, csv_file)
    /\ UNCHANGED <<process, csv_file, n_imports, import_call, cli_args>>
    /\ UNCHANGED sessionVars

NextImport ==
    \/ ImportAdditionalDataset /\ UNCHANGED <<splitVars, trackerVars, reportVars, uiVars, scoreVars>>
    \/ ReloadSession /\ UNCHANGED <<splitVars, trackerVars, reportVars, uiVars, scoreVars>>
    \/ Main /\ UNCHANGED <<splitVars, trackerVars, reportVars, uiVars, scoreVars>>

SpecImport == InitImport /\ [][NextImport]_vars

----------------------------------------------------------------------------
(* Properties of split_held_out *)

Done(c) == results[c].done

\* the normalized positive and negative texts of the rows of `rows` whose
\* anchor is `anchor`
NormsOfAnchor(rows, anchor) ==
    UNION {{_normalize_text(rows[i][2]), _normalize_text(rows[i][3])} :
              i \in {k \in 1..Len(rows) : rows[k][1] = anchor}}

\* the raw positive and negative texts of the rows of one anchor
TextsOfAnchor(rows, anchor) ==
    UNION {{rows[i][2], rows[i][3]} :
              i \in {k \in 1..Len(rows) : rows[k][1] = anchor}}

GroupAnchors(held) == {held[i].anchor : i \in 1..Len(held)}

\* C1: no held-out item of a returned group has a normalized text equal to
\* the normalized positive or negative text of a returned training triplet
\* with the same anchor.
C1_NoLeakage ==
    \A c \in Calls : Done(c) =>
        \A g \in Range(results[c].held) : \A it \in Range(g.items) :
            _normalize_text(it.text) \notin NormsOfAnchor(results[c].train, g.anchor)

\* C1 witness: a split returned a group for an anchor that also has training
\* rows, and a text of that anchor that is in no training row (a held-out
\* candidate) is a re-cased or re-spaced copy of a training text.
C1_Witness ==
    /\ Done(1)
    /\ fraction.num # 0
    /\ \E g \in Range(results[1].held) :
          \E txt \in TextsOfAnchor(triplets, g.anchor) :
             /\ txt \notin TextsOfAnchor(results[1].train, g.anchor)
             /\ _normalize_text(txt) \in NormsOfAnchor(results[1].train, g.anchor)

C6_ZeroFraction ==
    \A c \in Calls : (Done(c) /\ fraction.num = 0) =>
        /\ results[c].train = triplets
        /\ results[c].held = <<>>

\* C6 witness: fraction 0 on an input in which an anchor has enough rows to
\* be split.
C6_Witness ==
    /\ Done(1)
    /\ fraction.num = 0
    /\ \E a \in Range(AnchorOrder(triplets, <<>>)) :
          Len(RowsOf(triplets, a)) >= min_anchor_triplets

\* C7: an anchor with fewer than min_anchor_triplets input rows has all its
\* rows in the training list and no held-out group.
C7_SmallAnchorsToTrain ==
    \A c \in Calls : Done(c) =>
        \A a \in Range(AnchorOrder(triplets, <<>>)) :
            Len(RowsOf(triplets, a)) < min_anchor_triplets =>
                /\ RowsOf(results[c].train, a) = RowsOf(triplets, a)
                /\ a \notin GroupAnchors(results[c].held)

\* C7 witness: one anchor is below the minimum while another one was split.
C7_Witness ==
    /\ Done(1)
    /\ fraction.num # 0
    /\ \E a \in Range(AnchorOrder(triplets, <<>>)) :
          Len(RowsOf(triplets, a)) < min_anchor_triplets
    /\ results[1].held # <<>>

\* index of the first candidate whose normalized text is norm
FirstWithNorm(cands, norm) ==
    CHOOSE k \in 1..Len(cands) :
        /\ _normalize_text(cands[k].text) = norm
        /\ \A j \in 1..(k - 1) : _normalize_text(cands[j].text) # norm

\* the iteration of the loop that split `anchor`
LogOf(log, anchor) == CHOOSE e \in Range(log) : e.anchor = anchor

\* C8: within a held-out group no two items have the same normalized text,
\* and a kept item is the first candidate with its normalized text, in the
\* order of the shuffled candidate rows, positive before negative.
C8_GroupDedupe ==
    \A c \in Calls : Done(c) =>
        \A g \in Range(results[c].held) :
            /\ \A i, j \in 1..Len(g.items) :
                  i # j => _normalize_text(g.items[i].text)
                              # _normalize_text(g.items[j].text)
            /\ LET cands == Candidates(LogOf(results[c].log, g.anchor).held_rows)
               IN  \A i \in 1..Len(g.items) :
                      g.items[i] =
                          cands[FirstWithNorm(cands, _normalize_text(g.items[i].text))]

\* C8 witness: a group was returned whose candidates contain two texts with
\* the same normalized text.
C8_Witness ==
    /\ Done(1)
    /\ \E g \in Range(results[1].held) :
          LET cands == Candidates(LogOf(results[1].log, g.anchor).held_rows)
          IN  \E i, j \in 1..Len(cands) :
                 /\ i < j
                 /\ _normalize_text(cands[i].text) = _normalize_text(cands[j].text)
                 /\ g.items # <<>>
                 /\ \E k \in 1..Len(g.items) :
                       _normalize_text(g.items[k].text) = _normalize_text(cands[i].text)

\* C9: every returned held-out group has at least one item.
C9_NoEmptyGroup ==
    \A c \in Calls : Done(c) =>
        \A g \in Range(results[c].held) : Len(g.items) >= 1

\* C9 witness: an anchor was split, all its candidates were dropped by the
\* filters, and no group was returned for it.
C9_Witness ==
    /\ Done(1)
    /\ \E e \in Range(results[1].log) :
          /\ e.held_rows # <<>>
          /\ e.anchor \notin GroupAnchors(results[1].held)

\* max(1, round(n * f)) for the fraction f = num/den, a tie going to the
\* even neighbour as round() of the language does
ExpectedHeld(n, f) ==
    LET twice == 2 * n * f.num
        q == twice \div (2 * f.den)
        rest == twice % (2 * f.den)
        rounded == IF rest < f.den THEN q
                   ELSE IF rest > f.den THEN q + 1
                   ELSE IF q % 2 = 0 THEN q ELSE q + 1
    IN  IF rounded < 1 THEN 1 ELSE rounded

\* the anchors of the input with at least min_anchor_triplets rows
Qualifying ==
    {a \in Range(AnchorOrder(triplets, <<>>)) :
        Len(RowsOf(triplets, a)) >= min_anchor_triplets}

\* the iterations of the loop that split `anchor`
LogEntries(log, anchor) == {k \in 1..Len(log) : log[k].anchor = anchor}

\* C24: for a fraction in (0,1) and every anchor with at least
\* min_anchor_triplets rows, exactly n_held = max(1, round(row_count * f))
\* rows of the anchor are taken as held-out candidates and exactly
\* row_count - n_held rows of the anchor are returned in training.
C24_HeldCount ==
    \A c \in Calls : (Done(c) /\ fraction.num # 0) =>
        \A a \in Qualifying :
            LET n == Len(RowsOf(triplets, a))
                n_held == ExpectedHeld(n, fraction)
            IN  /\ Cardinality(LogEntries(results[c].log, a)) = 1
                /\ \A k \in LogEntries(results[c].log, a) :
                      /\ Len(results[c].log[k].held_rows) = n_held
                      /\ Len(results[c].log[k].train_part) = n - n_held
                      /\ \A j \in 1..n_held :
                            results[c].log[k].held_rows[j][1] = a
                /\ Len(RowsOf(results[c].train, a)) = n - n_held

\* C24 witness: an anchor with three rows was split at the fraction 1/2:
\* 1.5 rounds to two held-out candidate rows, and one row is trained on.
C24_Witness ==
    /\ Done(1)
    /\ fraction = [num |-> 1, den |-> 2]
    /\ \E a \in Qualifying :
          /\ Len(RowsOf(triplets, a)) = 3
          /\ Len(LogOf(results[1].log, a).held_rows) = 2
          /\ Len(RowsOf(results[1].train, a)) = 1

\* index of the first input row with this anchor
FirstSeen(rows, anchor) ==
    CHOOSE k \in 1..Len(rows) :
        /\ rows[k][1] = anchor
        /\ \A j \in 1..(k - 1) : rows[j][1] # anchor

\* the groups are in anchor first-seen order
GroupsInFirstSeenOrder(rows, held) ==
    \A i, j \in 1..Len(held) :
        i < j => FirstSeen(rows, held[i].anchor) < FirstSeen(rows, held[j].anchor)

\* all rows of an earlier-seen anchor precede all rows of a later-seen one
TrainInFirstSeenOrder(rows, train) ==
    \A i, j \in 1..Len(train) :
        FirstSeen(rows, train[i][1]) < FirstSeen(rows, train[j][1]) => i < j

\* C25 as stated: the held-out groups are in anchor first-seen order and,
\* in the training list, all rows of an earlier-seen anchor precede all rows
\* of a later-seen anchor.
C25_AsStated ==
    \A c \in Calls : Done(c) =>
        /\ GroupsInFirstSeenOrder(triplets, results[c].held)
        /\ TrainInFirstSeenOrder(triplets, results[c].train)

\* C25 amended: the held-out groups are in anchor first-seen order; for a
\* fraction other than 0, all training rows of an earlier-seen anchor
\* precede all training rows of a later-seen anchor; for the fraction 0 the
\* training list is the input in its own order.
C25_FirstSeenOrder ==
    \A c \in Calls : Done(c) =>
        /\ GroupsInFirstSeenOrder(triplets, results[c].held)
        /\ fraction.num # 0 => TrainInFirstSeenOrder(triplets, results[c].train)
        /\ fraction.num = 0 => results[c].train = triplets

\* C25 witness: the rows of two anchors alternate in the input, the split
\* at a fraction other than 0 returned a group, and the training list holds
\* a row of the anchor seen first before the row of the other anchor.
C25_Witness ==
    /\ Done(1)
    /\ fraction.num # 0
    /\ Len(triplets) = 3
    /\ triplets[1][1] = triplets[3][1] /\ triplets[1][1] # triplets[2][1]
    /\ results[1].held # <<>>
    /\ Len(results[1].train) = 2
    /\ results[1].train[1][1] = triplets[1][1]
    /\ results[1].train[2] = triplets[2]

\* how often the row r occurs in the list rows
Occurrences(rows, r) == Cardinality({k \in 1..Len(rows) : rows[k] = r})

\* how often r occurs among the held-out candidate rows of all iterations
RECURSIVE HeldOccurrences(_, _)
HeldOccurrences(log, r) ==
    IF log = <<>> THEN 0
    ELSE Occurrences(Head(log).held_rows, r) + HeldOccurrences(Tail(log), r)

\* the sum of n_held over the anchors of the set as
RECURSIVE SumHeld(_)
SumHeld(as) ==
    IF as = {} THEN 0
    ELSE LET a == CHOOSE x \in as : TRUE
         IN  ExpectedHeld(Len(RowsOf(triplets, a)), fraction) + SumHeld(as \ {a})

\* C27: split_held_out neither invents nor loses rows: every training row
\* is an input row, every occurrence of an input row is returned in training
\* once or is a held-out candidate, never both, and the number of training
\* rows is the number of input rows minus the sum of n_held over the anchors
\* that are split (none at the fraction 0).
C27_RowsConserved ==
    \A c \in Calls : Done(c) =>
        /\ \A k \in 1..Len(results[c].train) :
              results[c].train[k] \in Range(triplets)
        /\ \A r \in Range(triplets) :
              Occurrences(triplets, r) =
                  Occurrences(results[c].train, r)
                  + HeldOccurrences(results[c].log, r)
        /\ \A e \in Range(results[c].log) :
              \A k \in 1..Len(e.held_rows) : e.held_rows[k] \in Range(triplets)
        /\ Len(results[c].train) =
              Len(triplets) - (IF fraction.num = 0 THEN 0 ELSE SumHeld(Qualifying))

\* C27 witness: two anchors were split, a row that occurs twice in the
\* input went once to training and once to the held-out candidates.
C27_Witness ==
    /\ Done(1)
    /\ Len(results[1].log) = 2
    /\ \E r \in Range(triplets) :
          /\ Occurrences(triplets, r) = 2
          /\ Occurrences(results[1].train, r) = 1
          /\ HeldOccurrences(results[1].log, r) = 1

\* the (text, is positive) pairs of the held-out candidate rows, row by row,
\* the positive slot of a row before its negative slot
SlotsOf(held_rows) ==
    [k \in 1..(2 * Len(held_rows)) |->
        [text |-> held_rows[(k + 1) \div 2][IF k % 2 = 1 THEN 2 ELSE 3],
         positive |-> (k % 2 = 1)]]

\* C28: every held-out item carries the text of a positive or negative
\* slot of a held-out candidate row of its anchor as it is in the input,
\* is_positive tells the slot of the first occurrence of its normalized
\* text among the candidates, baseline_score is 0.0, and a group has at
\* most 2 * n_held items.
C28_ItemsAreCandidateSlots ==
    \A c \in Calls : Done(c) =>
        \A g \in Range(results[c].held) :
            LET held_rows == LogOf(results[c].log, g.anchor).held_rows
                slots == SlotsOf(held_rows)
            IN  /\ \A r \in Range(held_rows) : r[1] = g.anchor /\ r \in Range(triplets)
                /\ \A i \in 1..Len(g.items) :
                      /\ g.items[i].baseline_score = 0
                      /\ \E k \in 1..Len(slots) :
                            /\ slots[k].text = g.items[i].text
                            /\ slots[k].positive = g.items[i].is_positive
                            /\ \A j \in 1..(k - 1) :
                                  _normalize_text(slots[j].text)
                                      # _normalize_text(slots[k].text)
                /\ Len(g.items) <=
                      2 * ExpectedHeld(Len(RowsOf(triplets, g.anchor)), fraction)

\* C28 witness: a group with fewer than 2 * n_held items was returned, and
\* one of its items has a text that normalization would change.
C28_Witness ==
    /\ Done(1)
    /\ \E g \in Range(results[1].held) :
          /\ Len(g.items) <
                2 * ExpectedHeld(Len(RowsOf(triplets, g.anchor)), fraction)
          /\ \E i \in 1..Len(g.items) :
                _normalize_text(g.items[i].text) # g.items[i].text

----------------------------------------------------------------------------
(* Properties of _create_hn_dataset and training *)

\* the builder returned a dataset for non-empty P and N
BuiltNonEmptyPools ==
    /\ built.called /\ ~built.raised
    /\ built.pos_ids # <<>> /\ built.neg_ids # <<>>

\* number of triplets of ds whose field `slot` is txt
CountSlot(ds, slot, txt) == Cardinality({k \in 1..Len(ds) : ds[k][slot] = txt})

\* number of positions of ids whose title is txt
MultOf(T, ids, txt) == Cardinality({i \in 1..Len(ids) : T[ids[i] + 1] = txt})

CeilDiv(a, b) == (a + b - 1) \div b

\* every element of `ids` occurs exactly once in `slot` (elements with equal
\* titles are counted together)
EachOnce(ds, slot, T, ids) ==
    \A i \in 1..Len(ids) :
        CountSlot(ds, slot, T[ids[i] + 1]) = MultOf(T, ids, T[ids[i] + 1])

\* every element of `ids` occurs at least once and at most c times in `slot`
EachBetween(ds, slot, T, ids, c) ==
    \A i \in 1..Len(ids) :
        /\ CountSlot(ds, slot, T[ids[i] + 1]) >= MultOf(T, ids, T[ids[i] + 1])
        /\ CountSlot(ds, slot, T[ids[i] + 1]) <= c * MultOf(T, ids, T[ids[i] + 1])

\* C3: for non-empty P and N the builder returns exactly max(|P|, |N|)
\* triplets.
C3_CountIsMax ==
    BuiltNonEmptyPools =>
        Len(built.dataset) = Max(Len(built.pos_ids), Len(built.neg_ids))

\* C3 witness: the builder ran on pools of different sizes, the negative
\* pool being the longer one.
C3_Witness ==
    /\ BuiltNonEmptyPools
    /\ Len(built.neg_ids) > Len(built.pos_ids)

\* C4: for non-empty disjoint P and N every element of the longer list is
\* in its polarity slot of exactly one triplet, and every element of the
\* shorter list is in its slot of at least one and at most
\* ceil(|longer| / |shorter|) triplets.
C4_Balance ==
    (BuiltNonEmptyPools /\ Range(built.pos_ids) \cap Range(built.neg_ids) = {}) =>
        LET P == built.pos_ids
            N == built.neg_ids
            T == built.titles
            ds == built.dataset
        IN  IF Len(P) >= Len(N)
            THEN /\ EachOnce(ds, 2, T, P)
                 /\ EachBetween(ds, 3, T, N, CeilDiv(Len(P), Len(N)))
            ELSE /\ EachOnce(ds, 3, T, N)
                 /\ EachBetween(ds, 2, T, P, CeilDiv(Len(N), Len(P)))

\* C4 witness: disjoint pools of 3 and 2 elements with pairwise distinct
\* titles, so that one element of the shorter list is reused and one is not.
C4_Witness ==
    /\ BuiltNonEmptyPools
    /\ Range(built.pos_ids) \cap Range(built.neg_ids) = {}
    /\ Len(built.pos_ids) = 3 /\ Len(built.neg_ids) = 2
    /\ \A i, j \in 1..Len(built.titles) : i # j => built.titles[i] # built.titles[j]

\* C5 as stated: with an empty P or N the builder yields the empty list, and
\* training is rejected with the error that names the missing pool.
C5_AsStated ==
    /\ (built.called /\ (built.pos_ids = <<>> \/ built.neg_ids = <<>>)) =>
          (~built.raised /\ built.dataset = <<>>)
    /\ (outcome.op = "training" /\ (pos_ids = <<>> \/ neg_ids = <<>>)) =>
          /\ ~outcome.trained
          /\ outcome.error \in {ErrNoFavorite, ErrNoDislike}
          /\ (outcome.error = ErrNoFavorite => pos_ids = <<>>)
          /\ (outcome.error = ErrNoDislike => neg_ids = <<>>)

\* C5 amended: with an empty P or N the builder yields the empty list, and
\* training is rejected without training: with "Model not loaded." when the
\* session has no model, otherwise with the error that names the missing
\* pool (the Favorite pool when both are empty).
C5_EmptyPoolRejected ==
    /\ (built.called /\ (built.pos_ids = <<>> \/ built.neg_ids = <<>>)) =>
          (~built.raised /\ built.dataset = <<>>)
    /\ (outcome.op = "training" /\ (pos_ids = <<>> \/ neg_ids = <<>>)) =>
          /\ ~outcome.trained
          /\ outcome.error =
                IF model = None THEN ErrModelNotLoaded
                ELSE IF pos_ids = <<>> THEN ErrNoFavorite ELSE ErrNoDislike

\* C5 witness: a session with a loaded model rejected a training request
\* whose Dislike pool is empty, and the builder was called on these pools.
C5_Witness ==
    /\ model # None
    /\ built.called /\ built.pos_ids # <<>> /\ built.neg_ids = <<>>
    /\ outcome.op = "training"
    /\ pos_ids # <<>> /\ neg_ids = <<>>
    /\ outcome.error = ErrNoDislike

\* C23: the output of the builder is determined by cycling: for |P| >= |N|
\* triplet k (from 0) is [anchor, T[P[k]], T[N[k mod |N|]]] for k below |P|,
\* otherwise it is [anchor, T[P[k mod |P|]], T[N[k]]] for k below |N|; titles
\* A, B, C, D with Favorite 0, 1 and Dislike 2 give [anchor, A, C] and then
\* [anchor, B, C]; every text of a triplet is the anchor or a title at an
\* index of P or N.
C23_Cycling ==
    BuiltNonEmptyPools =>
        LET P == built.pos_ids
            N == built.neg_ids
            T == built.titles
            ds == built.dataset
        IN  /\ IF Len(P) >= Len(N)
               THEN /\ Len(ds) = Len(P)
                    /\ \A k \in 0..(Len(P) - 1) :
                          ds[k + 1] = <<QUERY_ANCHOR, T[P[k + 1] + 1],
                                        T[N[(k % Len(N)) + 1] + 1]>>
               ELSE /\ Len(ds) = Len(N)
                    /\ \A k \in 0..(Len(N) - 1) :
                          ds[k + 1] = <<QUERY_ANCHOR, T[P[(k % Len(P)) + 1] + 1],
                                        T[N[k + 1] + 1]>>
            /\ (T = <<"A", "B", "C", "D">> /\ P = <<0, 1>> /\ N = <<2>>) =>
                  ds = << <<QUERY_ANCHOR, "A", "C">>, <<QUERY_ANCHOR, "B", "C">> >>
            /\ \A k \in 1..Len(ds) :
                  /\ Len(ds[k]) = 3
                  /\ ds[k][1] = QUERY_ANCHOR
                  /\ \A slot \in {2, 3} :
                        \E i \in Range(P) \cup Range(N) : ds[k][slot] = T[i + 1]

\* C23 witness: the builder ran on titles A, B, C, D with Favorite 0, 1 and
\* Dislike 2 and reused the one negative title for the second triplet.
C23_Witness ==
    /\ BuiltNonEmptyPools
    /\ built.titles = <<"A", "B", "C", "D">>
    /\ built.pos_ids = <<0, 1>> /\ built.neg_ids = <<2>>
    /\ built.dataset = << <<QUERY_ANCHOR, "A", "C">>, <<QUERY_ANCHOR, "B", "C">> >>

\* the session reports itself fine-tuned: is_model_tuned() is true,
\* last_hn_dataset is non-empty and export_dataset() has a file to give
ReportsTuned(dataset) ==
    /\ is_model_tuned(dataset)
    /\ dataset # <<>>
    /\ export_dataset(dataset, TRUE) # None

\* C30: the session reports itself fine-tuned only if a training run has
\* completed successfully since the last refresh: it starts to report so
\* only in a step that is a successful training run, a training call that
\* fails in the training step leaves a session that was not fine-tuned not
\* fine-tuned, and refresh_data_and_model resets it to not fine-tuned.
C30_TunedOnlyAfterSuccess ==
    [][ /\ (~ReportsTuned(last_hn_dataset) /\ ReportsTuned(last_hn_dataset')) =>
              (outcome'.op = "training" /\ outcome'.trained)
        /\ (~ReportsTuned(last_hn_dataset) /\ outcome'.op = "training"
               /\ outcome'.error = TrainError) =>
              ~ReportsTuned(last_hn_dataset')
        /\ (outcome'.op = "refresh" /\ outcome' # outcome) =>
              ~ReportsTuned(last_hn_dataset') ]_vars

----------------------------------------------------------------------------
(* Properties of TasteTracker *)

\* the baseline_score of every item, per group
Baselines(groups) ==
    [k \in 1..Len(groups) |->
        [i \in 1..Len(groups[k].items) |-> groups[k].items[i].baseline_score]]

\* C10: baseline_score is written by the first train-begin transition,
\* before any epoch-end snapshot, and no later operation (a further
\* on_train_begin, on_epoch_end, get_final_summary) changes it.
C10_BaselineWrittenOnce ==
    [][(n_begin >= 1 \/ n_epoch >= 1) => Baselines(tt_groups') = Baselines(tt_groups)]_vars

\* C11: a second on_train_begin on the same tracker, after one has
\* completed, is not accepted: it ends in a StateError surfaced to the caller.
C11_SecondBeginRejected ==
    [][(n_begin >= 1 /\ tt_call'.op = "on_train_begin" /\ n_begin' # n_begin)
          => tt_call'.error = StateError]_vars

\* C12: as long as no on_epoch_end has completed, whether or not
\* on_train_begin has, get_final_summary() returns the empty result.
C12_EmptyBeforeEpochEnd ==
    (n_epoch = 0 /\ tt_call.op = "get_final_summary") => summary = EmptySummary

C12_Witness ==
    /\ n_begin >= 1
    /\ n_epoch = 0
    /\ tt_call.op = "get_final_summary"
    /\ summary = EmptySummary

\* C13: the retained final snapshot is the score map of the most recent
\* completed on_epoch_end (nothing else changes it, earlier epochs are not
\* kept), and once an epoch-end has completed get_final_summary() returns
\* the baseline-versus-final summary built from that snapshot, not the
\* empty result.
C13_FinalIsLastEpoch ==
    [][/\ (n_epoch' # n_epoch =>
              final_scores' = score_held_out_items(sim, tt_groups))
       /\ (n_epoch' = n_epoch => final_scores' = final_scores)
       /\ ((n_epoch >= 1 /\ tt_call'.op = "get_final_summary") =>
              /\ summary' # EmptySummary
              /\ \A k \in 1..Len(tt_groups) :
                    /\ summary'[k].anchor = tt_groups[k].anchor
                    /\ \A i \in 1..Len(tt_groups[k].items) :
                          /\ summary'[k].lines[i].after =
                                final_scores[tt_groups[k].anchor][i]
                          /\ summary'[k].lines[i].before =
                                tt_groups[k].items[i].baseline_score)]_vars

\* two epoch-ends with different weights, then the summary: it shows the
\* second snapshot
C13_Witness ==
    /\ n_epoch = 2
    /\ tt_call.op = "get_final_summary"
    /\ summary # EmptySummary
    /\ \E k \in 1..Len(summary) : summary[k].lines[1].delta # 0

\* C14: when the encoder raises during on_train_begin or on_epoch_end the
\* exception reaches the caller and the tracker is as it was before the
\* call: no baseline_score written, final snapshot unchanged, also when
\* earlier groups had already been scored.
C14_FailureLeavesState ==
    [][(tt_call' # tt_call /\ tt_call'.at >= 1) =>
          /\ tt_call'.error = ExternalFailure
          /\ tt_groups' = tt_groups
          /\ final_scores' = final_scores
          /\ n_begin' = n_begin /\ n_epoch' = n_epoch]_vars

\* the encoder raised at the second group of an on_train_begin, with
\* weights under which the first group's baseline would have been non-zero
C14_Witness ==
    /\ tt_call = TrackerCall("on_train_begin", ExternalFailure, 2)
    /\ n_begin = 0
    /\ sim[<<tt_groups[1].anchor, tt_groups[1].items[1].text>>] # 0

\* the positions of one polarity among the printed lines of a group
LinesTagged(lines, tag) == {i \in 1..Len(lines) : lines[i].tag = tag}

\* the (positive, negative) line pairs whose positive value is the greater
PairsWon(lines, field) ==
    {pr \in LinesTagged(lines, "+") \X LinesTagged(lines, "-") :
        lines[pr[1]][field] > lines[pr[2]][field]}

\* pct is won / (|positives| * |negatives|) * 100, and 0 without a pair
IsPairwisePct(pct, shown, lines, field) ==
    LET np == Cardinality(LinesTagged(lines, "+"))
        nn == Cardinality(LinesTagged(lines, "-"))
        won == Cardinality(PairsWon(lines, field))
    IN  /\ (np = 0 \/ nn = 0) => (pct.num = 0 /\ shown = 0)
        /\ (np > 0 /\ nn > 0) =>
              /\ pct.num * np * nn = won * 100 * pct.den
              /\ (won = np * nn) => shown = 100
              /\ 2 * won = np * nn => shown = 50

\* C15: in every table and final summary, the pairwise ranking accuracy of
\* a group is (pairs with positive score > negative score) /
\* (|positives| * |negatives|) * 100: 100 when every positive beats every
\* negative, and 0, without an error, when a polarity is missing.
C15_PairwiseAccuracy ==
    /\ printed # NotPrinted =>
          \A k \in 1..Len(printed.groups) :
              IsPairwisePct(printed.groups[k].agg.pair_pct,
                            printed.groups[k].agg.pair_shown,
                            printed.groups[k].lines, "score")
    /\ \A k \in 1..Len(final_report) :
          /\ IsPairwisePct(final_report[k].agg.pct_b, final_report[k].agg.shown_b,
                           final_report[k].lines, "before")
          /\ IsPairwisePct(final_report[k].agg.pct_a, final_report[k].agg.shown_a,
                           final_report[k].lines, "after")

\* a table with a group without negatives (0%) next to a group whose
\* positive beats its negative (100%), and a final summary of them
C15_Witness ==
    /\ printed # NotPrinted
    /\ \E k \in 1..Len(printed.groups) :
          /\ LinesTagged(printed.groups[k].lines, "-") = {}
          /\ printed.groups[k].agg.pair_shown = 0
    /\ \E k \in 1..Len(printed.groups) :
          /\ LinesTagged(printed.groups[k].lines, "-") # {}
          /\ printed.groups[k].agg.pair_shown = 100
    /\ \E k \in 1..Len(final_report) :
          /\ final_report[k].agg.shown_b = 0
          /\ final_report[k].agg.shown_a = 100

\* the (positive item, negative item) index pairs of a group
ItemPairs(items) ==
    {pr \in (1..Len(items)) \X (1..Len(items)) :
        items[pr[1]].is_positive /\ ~items[pr[2]].is_positive}

\* pct counts the pairs whose positive value is strictly the greater one
\* and none of the pairs with equal values
TiesAreIncorrect(pct, items, vals) ==
    LET pairs == ItemPairs(items)
        wins == {pr \in pairs : vals[pr[1]] > vals[pr[2]]}
        ties == {pr \in pairs : vals[pr[1]] = vals[pr[2]]}
    IN  pairs # {} =>
            /\ pct.num * Cardinality(pairs) = Cardinality(wins) * 100 * pct.den
            /\ pct.num * Cardinality(pairs)
                   <= (Cardinality(pairs) - Cardinality(ties)) * 100 * pct.den
            /\ ties = pairs => pct.num = 0

\* C29: pairwise ranking accuracy counts a pair as correct only when the
\* positive score is strictly greater than the negative score; a pair with
\* equal scores is incorrect, in the table of a snapshot and in the final
\* summary, for the baseline scores and for the current scores.
C29_TiesAreIncorrect ==
    /\ printed # NotPrinted =>
          \A k \in 1..Len(printed.groups) :
              /\ TiesAreIncorrect(printed.groups[k].agg.pair_pct,
                                  rp_groups[k].items,
                                  rp_scores[rp_groups[k].anchor])
              /\ Len(printed.header) = 2 =>
                    TiesAreIncorrect(printed.groups[k].agg.was_pct,
                                     rp_groups[k].items,
                                     BaselineList(rp_groups[k].items))
    /\ \A k \in 1..Len(final_report) :
          /\ TiesAreIncorrect(final_report[k].agg.pct_b, rp_groups[k].items,
                              BaselineList(rp_groups[k].items))
          /\ TiesAreIncorrect(final_report[k].agg.pct_a, rp_groups[k].items,
                              rp_scores[rp_groups[k].anchor])

\* C29 witness: a table with baseline deltas and a final summary of a group
\* of one positive and two negatives; the current scores tie in one pair
\* and win the other (50%), the baseline scores tie in both (0%).
C29_Witness ==
    /\ printed # NotPrinted
    /\ Len(printed.header) = 2
    /\ final_report # NoReport
    /\ \E k \in 1..Len(rp_groups) :
          LET items == rp_groups[k].items
              sc == rp_scores[rp_groups[k].anchor]
          IN  /\ Cardinality(ItemPairs(items)) = 2
              /\ \A pr \in ItemPairs(items) :
                    items[pr[1]].baseline_score = items[pr[2]].baseline_score
              /\ \E pr \in ItemPairs(items) : sc[pr[1]] = sc[pr[2]]
              /\ \E pr \in ItemPairs(items) : sc[pr[1]] > sc[pr[2]]
              /\ printed.groups[k].agg.pair_shown = 50
              /\ printed.groups[k].agg.was_shown = 0
              /\ final_report[k].agg.shown_b = 0
              /\ final_report[k].agg.shown_a = 50

\* C16: the score map of score_held_out_items holds, under the anchor of
\* every group passed (a single-item group too), one score per item, the
\* i-th being the similarity of the anchor to the i-th item.
C16_ScoresAligned ==
    [][(n_epoch' # n_epoch) =>
          \A k \in 1..Len(tt_groups) :
              LET g == tt_groups[k]
              IN  /\ g.anchor \in DOMAIN final_scores'
                  /\ Len(final_scores'[g.anchor]) = Len(g.items)
                  /\ \A i \in 1..Len(g.items) :
                        final_scores'[g.anchor][i] = sim[<<g.anchor, g.items[i].text>>]]_vars

\* a single-item group and a two-item group whose items score differently
C16_Witness ==
    /\ n_epoch >= 1
    /\ \E k \in 1..Len(tt_groups) : Len(tt_groups[k].items) = 1
    /\ \E k \in 1..Len(tt_groups) :
          /\ Len(tt_groups[k].items) = 2
          /\ final_scores[tt_groups[k].anchor][1] # final_scores[tt_groups[k].anchor][2]

----------------------------------------------------------------------------
(* Properties of the CSV importers *)

HasThreeFields(row) == Len(row) = 3

\* at least three fields, the first three non-blank
HasThreeTexts(row) ==
    Len(row) >= 3 /\ \A i \in 1..3 : Strip(row[i]) # <<>>

\* the rows import_additional_dataset takes as triplets when the rows are
\* all read as data
ImportData(rows) ==
    LET kept == SelectSeq(rows, HasThreeFields)
    IN  [i \in 1..Len(kept) |-> StripRow(kept[i])]

\* the rows load_csv takes as triplets when the rows are all read as data
LoadData(rows) ==
    LET kept == SelectSeq(rows, HasThreeTexts)
    IN  [i \in 1..Len(kept) |-> SubSeq(StripRow(kept[i]), 1, 3)]

\* the first field is "anchor", whatever its case and padding
FirstFieldIsAnchor(row) ==
    row # <<>> /\ LowerText(Strip(row[1])) = WordAnchor

\* the first three fields are "anchor", "positive", "negative"
IsExactHeader(row) ==
    /\ Len(row) >= 3
    /\ LowerText(Strip(row[1])) = WordAnchor
    /\ LowerText(Strip(row[2])) = WordPositive
    /\ LowerText(Strip(row[3])) = WordNegative

\* a step in which import_additional_dataset read the rows of a file
ImportStep == n_imports' # n_imports /\ import_call'.msg = MsgImported

\* a step in which main got triplets back from load_csv
LoadStep == cli_result' # cli_result /\ cli_result'.partition.made

\* C17 as stated: by both importers, a first row whose first field is
\* "anchor" (case-insensitively) is dropped as a header whatever its other
\* fields are, and every other row is read as data.
C17_AsStated ==
    [][/\ ImportStep =>
            LET rows == import_call'.file.rows
            IN  imported_dataset' =
                    ImportData(IF FirstFieldIsAnchor(Head(rows))
                               THEN Tail(rows) ELSE rows)
       /\ (LoadStep /\ csv_file.rows # <<>>) =>
            cli_result'.loaded =
                LoadData(IF FirstFieldIsAnchor(Head(csv_file.rows))
                         THEN Tail(csv_file.rows) ELSE csv_file.rows)]_vars

\* C17, amended: import_additional_dataset drops a first row whose first
\* field is "anchor" (trimmed, case-insensitively) whatever its other fields
\* are; load_csv drops the first row only when its first three fields are
\* "anchor", "positive", "negative" (trimmed, case-insensitively) and reads
\* a first row that merely starts with "anchor" as data; every other row is
\* read as data by both.
C17_HeaderDropped ==
    [][/\ ImportStep =>
            LET rows == import_call'.file.rows
            IN  imported_dataset' =
                    ImportData(IF FirstFieldIsAnchor(Head(rows))
                               THEN Tail(rows) ELSE rows)
       /\ (LoadStep /\ csv_file.rows # <<>>) =>
            cli_result'.loaded =
                LoadData(IF IsExactHeader(Head(csv_file.rows))
                         THEN Tail(csv_file.rows) ELSE csv_file.rows)]_vars

\* the file [["Anchor","Positive","Negative"],["X","p1","n1"]] imported as
\* exactly one triplet
C17_Witness ==
    /\ import_call.file =
          CsvFile("rows", << <<FAnchor, FPositive, FNegative>>, <<FX, FP1, FN1>> >>)
    /\ import_call.msg = MsgImported
    /\ imported_dataset = << <<FX, FP1, FN1>> >>

\* C18: every triplet an importer accepts (import_additional_dataset,
\* load_csv) has an anchor, a positive and a negative that are non-empty
\* after trimming.
C18_AcceptedNonEmpty ==
    /\ \A i \in 1..Len(imported_dataset) :
          /\ Len(imported_dataset[i]) = 3
          /\ \A j \in 1..3 : Strip(imported_dataset[i][j]) # <<>>
    /\ \A i \in 1..Len(cli_result.loaded) :
          /\ Len(cli_result.loaded[i]) = 3
          /\ \A j \in 1..3 : Strip(cli_result.loaded[i][j]) # <<>>

\* C19: an import that fails (no file, unreadable or empty file, no valid
\* row, read error) leaves imported_dataset as it was.
C19_FailedImportKeeps ==
    [][(n_imports' # n_imports /\ import_call'.msg # MsgImported)
          => imported_dataset' = imported_dataset]_vars

\* a failed import of a file that broke after a readable row, with the
\* dataset of an earlier import still in place
C19_Witness ==
    /\ n_imports = 2
    /\ import_call.msg = MsgFailed
    /\ import_call.file.kind = "corrupt"
    /\ import_call.file.rows # <<>>
    /\ imported_dataset # <<>>

\* C20: train.py rejects a held-out fraction outside [0, 1) (negative, or
\* 1 and more) as a usage error, whatever else it was given, and makes no
\* training/held-out partition for it.
C20_FractionRejected ==
    (/\ cli_result.exit # NotRun
     /\ \/ cli_args.heldout_fraction.num < 0
        \/ cli_args.heldout_fraction.num >= cli_args.heldout_fraction.den)
    => /\ cli_result.exit = ExitUsage
       /\ ~cli_result.partition.made
       /\ cli_result.partition.train = <<>>
       /\ cli_result.partition.held = <<>>

\* train.py run with fraction 5/4 on a file with two loadable rows and
\* otherwise valid arguments
C20_Witness ==
    /\ cli_result.exit = ExitUsage
    /\ cli_args.heldout_fraction = FracOf(5, 4)
    /\ cli_args.epochs > 0 /\ cli_args.lr.num > 0
    /\ cli_args.serve = None /\ cli_args.convert_only = None
    /\ csv_file.kind = "rows"
    /\ Len(load_csv(csv_file).triplets) = 2

\* C21: an invocation of split_held_out that runs interleaved with another
\* invocation and with draws from the module-level generator returns what
\* the same call returns when it runs alone, and no step of an invocation
\* changes the state of the module-level generator.
C21_InterleavedAsAlone ==
    [][ /\ \A c \in Calls :
              results'[c].done =>
                  LET alone == split_held_out(triplets', fraction',
                                              min_anchor_triplets', seed')
                  IN  /\ results'[c].train = alone.train
                      /\ results'[c].held = alone.held
        /\ global_rng' # global_rng =>
              /\ global_draws' = global_draws + 1
              /\ frames' = frames ]_vars

\* One invocation returned held-out groups while the other one is inside
\* its loop, past a shuffle and with an anchor still to visit, and the
\* module-level generator was drawn from.
C21_Witness ==
    /\ results[1].done
    /\ results[1].held # <<>>
    /\ frames[2].pc = "loop"
    /\ frames[2].acc.log # <<>>
    /\ frames[2].anchors # <<>>
    /\ global_draws > 0

\* the indices below n whose label, Neutral when unset, is the given one
IndicesLabelled(d, n, label) ==
    {i \in 0..(n - 1) : (IF i \in DOMAIN d THEN d[i] ELSE LABEL_NEU) = label}

Ascending(ids) == \A j, k \in 1..Len(ids) : j < k => ids[j] < ids[k]

\* C22: a training_wrapper call puts an index below |stories| in the
\* positive pool iff its label is Favorite and in the negative pool iff
\* its label is Dislike, an unset label counting as Neutral; indices that
\* are unlabeled or Neutral are in neither pool, the pools are disjoint and
\* each lists its indices in ascending order.
C22_PoolsFromLabels ==
    [][ (outcome'.op = "training" /\ labels' = labels /\ stories' = stories) =>
           /\ Range(pos_ids') = IndicesLabelled(labels, Len(stories), LABEL_FAV)
           /\ Range(neg_ids') = IndicesLabelled(labels, Len(stories), LABEL_DIS)
           /\ Range(pos_ids') \cap Range(neg_ids') = {}
           /\ Ascending(pos_ids') /\ Ascending(neg_ids') ]_vars

\* A training call on three stories: one Favorite, one Dislike and one
\* without a label, which is in neither pool.
C22_Witness ==
    /\ outcome.op = "training"
    /\ Len(stories) = 3
    /\ DOMAIN labels = {0, 2}
    /\ labels[0] = LABEL_DIS /\ labels[2] = LABEL_FAV
    /\ pos_ids = <<2>> /\ neg_ids = <<0>>

\* positions of the log with a call of the given kind for group k
CallsFor(log, k, batched) ==
    {i \in 1..Len(log) : log[i].group = k /\ log[i].batched = batched}

\* C26: in one scoring pass the model embeds every group at most once and
\* in the order of the group list: for a group the anchor is embedded in
\* one call and all item texts in one batched call, both before any call
\* for the next group, and a pass that returns has embedded every group.
C26_OncePerGroupInOrder ==
    scored.called =>
          LET log == encode_log
              groups == sc_groups
          IN  /\ \A i \in 1..Len(log) : log[i].group \in 1..Len(groups)
              /\ \A k \in 1..Len(groups) :
                    /\ Cardinality(CallsFor(log, k, FALSE)) <= 1
                    /\ Cardinality(CallsFor(log, k, TRUE)) <= 1
                    /\ \A i \in CallsFor(log, k, FALSE) :
                          log[i].texts = <<groups[k].anchor>>
                    /\ \A i \in CallsFor(log, k, TRUE) :
                          /\ log[i].texts =
                                [j \in 1..Len(groups[k].items) |-> groups[k].items[j].text]
                          /\ \E a \in CallsFor(log, k, FALSE) : a < i
              /\ \A i, j \in 1..Len(log) : i < j => log[i].group <= log[j].group
              /\ \A i \in 1..Len(log) : \A k \in 1..(log[i].group - 1) :
                    /\ \E a \in CallsFor(log, k, FALSE) : a < i
                    /\ \E b \in CallsFor(log, k, TRUE) : b < i
              /\ ~scored.raised => Len(log) = 2 * Len(groups)

\* C26 witness: a pass over two groups returned; the first group has two
\* items, embedded in one call.
C26_Witness ==
    /\ scored.called /\ ~scored.raised
    /\ Len(sc_groups) = 2
    /\ Len(sc_groups[1].items) = 2
    /\ Len(encode_log) = 4
    /\ DOMAIN scored.scores = {"X", "Y"}

====
